---------------------------- MODULE Spec2Model ----------------------------
(***************************************************************************)
(* A model of the query gateway of the NYC 311 Data MCP server             *)
(* (src/data_mcp): the SQL validator, the query executor and the           *)
(* query_data request handler.                                             *)
(*                                                                         *)
(* Text is modelled as a sequence of one-character strings, so that        *)
(* upper-casing, trimming, prefix and substring tests are computed and     *)
(* not assumed.  The alphabet is ASCII: Python's str.upper() on non-ASCII  *)
(* characters is outside the model.                                        *)
(*                                                                         *)
(* The logger (logging.Logger) is modelled as a sink that records every    *)
(* event and does not raise, which is the contract of logging.Logger.info  *)
(* and logging.Logger.error for the keys of `extra` used in the source.    *)
(* The engine (the duckdb connection) and the client context (ctx) are     *)
(* the environment: each of their calls either succeeds or raises.         *)
(***************************************************************************)
EXTENDS Integers, Sequences, FiniteSets, TLC

VARIABLES
    entry,          \* operation the caller invoked: "none", "validate", "execute_query", "query_data"
    sql,            \* the caller's text (query_data's sql, execute_query's query)
    params,         \* execute_query's params argument
    hasCtx,         \* query_data's ctx argument is truthy
    pc,             \* position of the running call
    validated,      \* "no", "passed", "rejected": what validate_sql_query did in this request
    logEvents,      \* events received by the logger during this call, in order
    engineCalls,    \* db.execute calls made during this call, in order
    clientEvents,   \* notifications delivered to the client through ctx during this call
    cursor,         \* what the engine answers to the db.execute of this call
    rows,           \* execute_query's local `result` (fetchall)
    columns,        \* execute_query's local `columns`
    resultDicts,    \* execute_query's local `result_dicts`
    elapsed,        \* milliseconds between query_start_time and the last time.time()
    exc,            \* the exception in flight, or NoExc
    outcome,        \* "pending", "returned" or "raised": how the call ended
    returned,       \* <<v>> once the call has returned v to its caller, <<>> before or never
    dataFile,       \* the parquet file under data_dir as the engine finds it
    commentsSupported, \* the engine knows COMMENT ON and the comment column of duckdb_columns()
    catalog,        \* the catalog of the connection
    conn,           \* "none", "open" or "closed": the connection db
    closeCalls,     \* number of db.close() calls
    stmts,          \* statements issued by the running AppContext or schema call, in order
    lifespan,       \* position of app_lifespan, "off" when no lifespan runs
    lifespanLog,    \* messages app_lifespan has logged
    lsExc,          \* the exception in flight in app_lifespan, or NoExc
    served,         \* app_lifespan has yielded the context
    colIdx,         \* position of the column loop of _initialize_tables
    constructions,  \* number of AppContext constructions started on the connection
    commentsDict,   \* get_schema_info's local `comments_dict`
    schemaRows,     \* the local `result` of the schema queries
    basicCalls,     \* number of _get_basic_schema_info calls of the running schema call
    config,         \* the ServerConfig instance of the process
    loggers,        \* logging's registry: level, handlers and propagate of each named logger
    setupCalls,     \* number of setup_logger calls made
    tasks,          \* the requests the event loop is running: operation, position, state
    running,        \* the request holding the event loop's thread, 0 when none does
    stmtOpen,       \* the requests with an engine statement in progress
    wire            \* the statements the connection has received from the requests, in order

vars == <<entry, sql, params, hasCtx, pc, validated, logEvents, engineCalls,
          clientEvents, cursor, rows, columns, resultDicts, elapsed, exc, outcome,
          returned, dataFile, commentsSupported, catalog, conn, closeCalls, stmts,
          lifespan, lifespanLog, lsExc, served, colIdx, constructions, commentsDict,
          schemaRows, basicCalls, config, loggers, setupCalls, tasks, running, stmtOpen,
          wire>>

----------------------------------------------------------------------------
(* Bounds of the model *)

\* a bounded text is a concatenation of at most MaxFrags fragments
MaxFrags == 3
\* the engine returns at most MaxRows rows
MaxRows == 2
\* the clock advances by at most MaxElapsed milliseconds during a call
MaxElapsed == 1

----------------------------------------------------------------------------
(* Text: str.upper, str.strip, str.startswith, `in`, slicing *)

LowerCase ==
    <<"a", "b", "c", "d", "e", "f", "g", "h", "i", "j", "k", "l", "m",
      "n", "o", "p", "q", "r", "s", "t", "u", "v", "w", "x", "y", "z">>

UpperCase ==
    <<"A", "B", "C", "D", "E", "F", "G", "H", "I", "J", "K", "L", "M",
      "N", "O", "P", "Q", "R", "S", "T", "U", "V", "W", "X", "Y", "Z">>

Whitespace == {" ", "\t", "\n", "\r"}

UpperChar(c) ==
    IF \E i \in 1..Len(LowerCase) : LowerCase[i] = c
    THEN UpperCase[CHOOSE i \in 1..Len(LowerCase) : LowerCase[i] = c]
    ELSE c

\* str.upper()
Upper(s) == [i \in 1..Len(s) |-> UpperChar(s[i])]

\* str.strip(): the text between the first and the last non-whitespace character
Strip(s) ==
    LET keep == {i \in 1..Len(s) : s[i] \notin Whitespace}
    IN  IF keep = {} THEN <<>>
        ELSE SubSeq(s, CHOOSE i \in keep : \A j \in keep : i <= j,
                       CHOOSE i \in keep : \A j \in keep : j <= i)

\* `k in s` for strings
Contains(s, k) ==
    \E i \in 1..(Len(s) - Len(k) + 1) : SubSeq(s, i, i + Len(k) - 1) = k

\* the elements of a sequence
Range(s) == {s[i] : i \in 1..Len(s)}

\* s.startswith(k)
StartsWith(s, k) == Len(s) >= Len(k) /\ SubSeq(s, 1, Len(k)) = k

\* s[:n]
Prefix(s, n) == SubSeq(s, 1, IF Len(s) < n THEN Len(s) ELSE n)

\* `not sql or not sql.strip()`
IsBlank(s) == Len(s) = 0 \/ Len(Strip(s)) = 0

----------------------------------------------------------------------------
(* The texts the model submits *)

\* test_main.py:103  "": 0 characters
Q_Empty ==
    <<>>

\* test_main.py:104  "   ": 3 characters
Q_Blank ==
    <<" ", " ", " ">>

\* test_main.py:105: 11 characters
Q_ShowTables ==
    <<"S", "H", "O", "W", " ", "T", "A", "B", "L", "E", "S">>

\* test_main.py:106: 19 characters
Q_StarNoLimit ==
    <<"S", "E", "L", "E", "C", "T", " ", "*", " ", "F", "R", "O", "M", " ", "t", "a", "b", "l",
      "e">>

\* test_main.py:94: 28 characters
Q_StarLimit ==
    <<"S", "E", "L", "E", "C", "T", " ", "*", " ", "F", "R", "O", "M", " ", "t", "a", "b", "l",
      "e", " ", "L", "I", "M", "I", "T", " ", "1", "0">>

\* test_main.py:95: 28 characters
Q_Cols ==
    <<"S", "E", "L", "E", "C", "T", " ", "c", "o", "l", "1", ",", " ", "c", "o", "l", "2", " ",
      "F", "R", "O", "M", " ", "t", "a", "b", "l", "e">>

\* test_main.py:96: 34 characters
Q_LowerPadded ==
    <<" ", " ", " ", "s", "e", "l", "e", "c", "t", " ", "c", "o", "l", "1", ",", " ", "c", "o",
      "l", "2", " ", "f", "r", "o", "m", " ", "t", "a", "b", "l", "e", " ", " ", " ">>

\* test_main.py:107: 15 characters
Q_Drop ==
    <<"D", "R", "O", "P", " ", "T", "A", "B", "L", "E", " ", "t", "e", "s", "t">>

\* test_main.py:108: 22 characters
Q_Update ==
    <<"U", "P", "D", "A", "T", "E", " ", "t", "a", "b", "l", "e", " ", "S", "E", "T", " ", "c",
      "o", "l", "=", "1">>

\* test_main.py:109: 41 characters
Q_Comment ==
    <<"S", "E", "L", "E", "C", "T", " ", "c", "o", "l", "1", " ", "F", "R", "O", "M", " ", "t",
      "a", "b", "l", "e", " ", "-", "-", " ", "D", "R", "O", "P", " ", "T", "A", "B", "L", "E",
      " ", "t", "e", "s", "t">>

\* test_main.py:51: 18 characters
Q_StarTest ==
    <<"S", "E", "L", "E", "C", "T", " ", "*", " ", "F", "R", "O", "M", " ", "t", "e", "s", "t">>

\* test_main.py:79: 15 characters
Q_Param ==
    <<"S", "E", "L", "E", "C", "T", " ", "*", " ", "F", "R", "O", "M", " ", "?">>

\* a one-row, one-column query: 13 characters
Q_Select1 ==
    <<"S", "E", "L", "E", "C", "T", " ", "1", " ", "A", "S", " ", "x">>

\* a forbidden word inside a string literal: 28 characters
Q_Literal ==
    <<"S", "E", "L", "E", "C", "T", " ", "'", "d", "r", "o", "p", "'", " ", "F", "R", "O", "M",
      " ", "t", " ", "L", "I", "M", "I", "T", " ", "1">>

\* server.py:65: 115 characters
Ex_CountByType ==
    <<"S", "E", "L", "E", "C", "T", " ", "c", "o", "m", "p", "l", "a", "i", "n", "t", "_", "t",
      "y", "p", "e", ",", " ", "C", "O", "U", "N", "T", "(", "*", ")", " ", "a", "s", " ", "c",
      "o", "u", "n", "t", " ", "F", "R", "O", "M", " ", "s", "e", "r", "v", "i", "c", "e", "_",
      "r", "e", "q", "u", "e", "s", "t", "s", " ", "G", "R", "O", "U", "P", " ", "B", "Y", " ",
      "c", "o", "m", "p", "l", "a", "i", "n", "t", "_", "t", "y", "p", "e", " ", "O", "R", "D",
      "E", "R", " ", "B", "Y", " ", "c", "o", "u", "n", "t", " ", "D", "E", "S", "C", " ", "L",
      "I", "M", "I", "T", " ", "1", "0">>

\* server.py:66: 75 characters
Ex_Recent ==
    <<"S", "E", "L", "E", "C", "T", " ", "*", " ", "F", "R", "O", "M", " ", "s", "e", "r", "v",
      "i", "c", "e", "_", "r", "e", "q", "u", "e", "s", "t", "s", " ", "W", "H", "E", "R", "E",
      " ", "c", "r", "e", "a", "t", "e", "d", "_", "d", "a", "t", "e", " ", ">", "=", " ", "'",
      "2", "0", "2", "4", "-", "0", "1", "-", "0", "1", "'", " ", "L", "I", "M", "I", "T", " ",
      "1", "0", "0">>

\* server.py:67: 63 characters
Ex_Borough ==
    <<"S", "E", "L", "E", "C", "T", " ", "b", "o", "r", "o", "u", "g", "h", ",", " ", "C", "O",
      "U", "N", "T", "(", "*", ")", " ", "F", "R", "O", "M", " ", "s", "e", "r", "v", "i", "c",
      "e", "_", "r", "e", "q", "u", "e", "s", "t", "s", " ", "G", "R", "O", "U", "P", " ", "B",
      "Y", " ", "b", "o", "r", "o", "u", "g", "h">>

\* spec.md, section 8: 15 characters
Q_SpecStar ==
    <<"S", "E", "L", "E", "C", "T", " ", "*", " ", "F", "R", "O", "M", " ", "t">>

\* spec.md, section 8: 23 characters
Q_SpecStarLimit ==
    <<"S", "E", "L", "E", "C", "T", " ", "*", " ", "F", "R", "O", "M", " ", "t", " ", "L", "I",
      "M", "I", "T", " ", "5">>

\* spec.md, section 8: 17 characters
Q_SpecCols ==
    <<"S", "E", "L", "E", "C", "T", " ", "a", ",", "b", " ", "F", "R", "O", "M", " ", "t">>

\* an identifier containing EXEC and EXECUTE: 25 characters
Q_Executed ==
    <<"S", "E", "L", "E", "C", "T", " ", "e", "x", "e", "c", "u", "t", "e", "d", "_", "a", "t",
      " ", "F", "R", "O", "M", " ", "t">>

\* a query of exactly 100 characters
Q_Len100 ==
    <<"S", "E", "L", "E", "C", "T", " ", "c", "o", "m", "p", "l", "a", "i", "n", "t", "_", "t",
      "y", "p", "e", ",", " ", "d", "e", "s", "c", "r", "i", "p", "t", "o", "r", " ", "F", "R",
      "O", "M", " ", "s", "e", "r", "v", "i", "c", "e", "_", "r", "e", "q", "u", "e", "s", "t",
      "s", " ", "W", "H", "E", "R", "E", " ", "b", "o", "r", "o", "u", "g", "h", " ", "=", " ",
      "'", "B", "R", "O", "O", "K", "L", "Y", "N", "'", " ", "O", "R", "D", "E", "R", " ", "B",
      "Y", " ", "1", " ", "L", "I", "M", "I", "T", " ">>

\* a query of 101 characters
Q_Len101 ==
    <<"S", "E", "L", "E", "C", "T", " ", "c", "o", "m", "p", "l", "a", "i", "n", "t", "_", "t",
      "y", "p", "e", ",", " ", "d", "e", "s", "c", "r", "i", "p", "t", "o", "r", " ", "F", "R",
      "O", "M", " ", "s", "e", "r", "v", "i", "c", "e", "_", "r", "e", "q", "u", "e", "s", "t",
      "s", " ", "W", "H", "E", "R", "E", " ", "b", "o", "r", "o", "u", "g", "h", " ", "=", " ",
      "'", "B", "R", "O", "O", "K", "L", "Y", "N", "'", " ", "O", "R", "D", "E", "R", " ", "B",
      "Y", " ", "1", " ", "L", "I", "M", "I", "T", " ", "9">>

\* two statements, the second one loading a file into the table: 51 characters
Q_CopyFrom ==
    <<"S", "E", "L", "E", "C", "T", " ", "1", ";", " ", "C", "O", "P", "Y", " ", "s", "e", "r",
      "v", "i", "c", "e", "_", "r", "e", "q", "u", "e", "s", "t", "s", " ", "F", "R", "O", "M",
      " ", "'", "m", "o", "r", "e", ".", "p", "a", "r", "q", "u", "e", "t", "'">>

\* a SELECT whose only listed keyword is PRAGMA, inside a function name
Q_Pragma ==
    <<"S", "E", "L", "E", "C", "T", " ", "*", " ", "F", "R", "O", "M", " ", "p", "r", "a", "g",
      "m", "a", "_", "t", "a", "b", "l", "e", "_", "i", "n", "f", "o", "(", "'", "s", "e", "r",
      "v", "i", "c", "e", "_", "r", "e", "q", "u", "e", "s", "t", "s", "'", ")", " ", "L", "I",
      "M", "I", "T", " ", "5">>

T_COPY_FROM ==
    <<"C", "O", "P", "Y", " ", "S", "E", "R", "V", "I", "C", "E", "_", "R", "E", "Q", "U", "E",
      "S", "T", "S", " ", "F", "R", "O", "M">>

KW == [
    DROP |-> <<"D", "R", "O", "P">>,
    DELETE |-> <<"D", "E", "L", "E", "T", "E">>,
    UPDATE |-> <<"U", "P", "D", "A", "T", "E">>,
    INSERT |-> <<"I", "N", "S", "E", "R", "T">>,
    ALTER |-> <<"A", "L", "T", "E", "R">>,
    CREATE |-> <<"C", "R", "E", "A", "T", "E">>,
    TRUNCATE |-> <<"T", "R", "U", "N", "C", "A", "T", "E">>,
    EXEC |-> <<"E", "X", "E", "C">>,
    EXECUTE |-> <<"E", "X", "E", "C", "U", "T", "E">>,
    PRAGMA |-> <<"P", "R", "A", "G", "M", "A">>
]

T_SELECT == <<"S", "E", "L", "E", "C", "T">>

T_SELECT_STAR == <<"S", "E", "L", "E", "C", "T", " ", "*">>

T_LIMIT == <<"L", "I", "M", "I", "T">>

T_ELLIPSIS == <<".", ".", ".">>

Fragments == {
    <<" ">>,
    <<"\n">>,
    <<"s", "e", "l", "e", "c", "t">>,
    <<"S", "e", "l", "e", "c", "t">>,
    <<" ", "*">>,
    <<"D", "r", "o", "p">>,
    <<" ", "L", "I", "M", "I", "T">>,
    <<"e", "x", "e", "c">>,
    <<"U", "T", "E">>,
    <<"x">>
}

\* the texts submitted to execute_query and query_data
Catalogue ==
    {Q_Empty, Q_Blank, Q_ShowTables, Q_StarNoLimit, Q_StarLimit, Q_Cols, Q_LowerPadded,
     Q_Drop, Q_Update, Q_Comment, Q_StarTest, Q_Param, Q_Select1, Q_Literal,
     Ex_CountByType, Ex_Recent, Ex_Borough, Q_SpecStar, Q_SpecStarLimit, Q_SpecCols,
     Q_Executed}

RECURSIVE Concat(_)
Concat(fs) == IF fs = <<>> THEN <<>> ELSE Head(fs) \o Concat(Tail(fs))

\* the texts submitted to validate_sql_query: the catalogue and every concatenation
\* of at most MaxFrags fragments
BoundedTexts ==
    Catalogue \cup
    UNION {{Concat(fs) : fs \in [1..n -> Fragments]} : n \in 0..MaxFrags}

----------------------------------------------------------------------------
(* Exceptions: type, message (the pieces of the formatted string), cause *)

\* Python's None as a return value
None == <<>>

NoExc == [type |-> "None", msg |-> <<>>, cause |-> <<>>]

\* raise T(msg)
Raise(type, msg) == [type |-> type, msg |-> msg, cause |-> <<>>]

\* a plausible slip: the new exception is raised without `from e`
RaiseFrom_NoCause(type, prefix, e) == [type |-> type, msg |-> <<prefix>> \o e.msg, cause |-> <<>>]

\* raise T(f"{prefix}{e}") from e
RaiseFrom(type, prefix, e) == [type |-> type, msg |-> <<prefix>> \o e.msg, cause |-> <<e>>]

MsgEmpty == "SQL query cannot be empty"
MsgForbidden == "Query contains forbidden keyword: "
MsgOnlySelect == "Only SELECT queries are allowed"
MsgStarLimit == "SELECT * queries must include a LIMIT clause for performance reasons"

----------------------------------------------------------------------------
(* DatabaseManager.validate_sql_query *)

\* a plausible slip: the list is read from the server's configuration
dangerous_keywords_FromConfig == config.forbidden_sql_keywords

\* lines 97-108: the list written in the function
dangerous_keywords ==
    <<"DROP", "DELETE", "UPDATE", "INSERT", "ALTER", "CREATE", "TRUNCATE", "EXEC",
      "EXECUTE", "PRAGMA">>

\* a plausible slip: the text is upper-cased but not trimmed
SqlUpper_NoStrip(s) == Upper(s)

\* a plausible slip: the text is trimmed but not upper-cased
SqlUpper_NoUpper(s) == Strip(s)

\* sql_upper = sql.upper().strip()
SqlUpper(s) == Strip(Upper(s))

\* a plausible slip: the keyword found earliest in the text is the one raised for
ForbiddenLoop_Earliest(T, i) ==
    LET present == {k \in i..Len(dangerous_keywords) : Contains(T, KW[dangerous_keywords[k]])}
        pos(k) == CHOOSE p \in 1..Len(T) :
                    /\ StartsWith(SubSeq(T, p, Len(T)), KW[dangerous_keywords[k]])
                    /\ \A r \in 1..(p - 1) :
                        ~StartsWith(SubSeq(T, r, Len(T)), KW[dangerous_keywords[k]])
    IN  IF present = {} THEN 0
        ELSE CHOOSE k \in present : \A m \in present : pos(k) <= pos(m)

\* for keyword in dangerous_keywords: if keyword in sql_upper: raise ...
\* the index of the keyword the loop raises for, 0 when the loop ends without raising
RECURSIVE ForbiddenLoop(_, _)
ForbiddenLoop(T, i) ==
    IF i > Len(dangerous_keywords) THEN 0
    ELSE IF Contains(T, KW[dangerous_keywords[i]]) THEN i
    ELSE ForbiddenLoop(T, i + 1)

\* a plausible slip: the SELECT test placed before the keyword loop
ValidateSqlQuery_SelectFirst(s) ==
    IF IsBlank(s) THEN Raise("ValidationError", <<MsgEmpty>>)
    ELSE LET T == SqlUpper(s)
             k == ForbiddenLoop(T, 1)
         IN  IF ~StartsWith(T, T_SELECT)
             THEN Raise("ValidationError", <<MsgOnlySelect>>)
             ELSE IF k # 0
             THEN Raise("ValidationError", <<MsgForbidden, dangerous_keywords[k]>>)
             ELSE IF Contains(T, T_SELECT_STAR) /\ ~Contains(T, T_LIMIT)
             THEN Raise("ValidationError", <<MsgStarLimit>>)
             ELSE NoExc

\* the exception validate_sql_query raises for s, NoExc when it returns
ValidateSqlQuery(s) ==
    IF IsBlank(s) THEN Raise("ValidationError", <<MsgEmpty>>)
    ELSE LET T == SqlUpper(s)
             k == ForbiddenLoop(T, 1)
         IN  IF k # 0
             THEN Raise("ValidationError", <<MsgForbidden, dangerous_keywords[k]>>)
             ELSE IF ~StartsWith(T, T_SELECT)
             THEN Raise("ValidationError", <<MsgOnlySelect>>)
             ELSE IF Contains(T, T_SELECT_STAR) /\ ~Contains(T, T_LIMIT)
             THEN Raise("ValidationError", <<MsgStarLimit>>)
             ELSE NoExc

----------------------------------------------------------------------------
(* The engine behind the connection handle, as execute_query sees it *)

\* the column-name lists a result can declare (a name can occur twice)
ColumnLists == {<<>>, <<"x">>, <<"x", "y">>, <<"x", "x">>}

Vals == {1, 2}

\* the row lists fetchall() can return: at most MaxRows tuples of one width
RowSeqs ==
    UNION {[1..n -> [1..Len(c) -> Vals]] : n \in 0..MaxRows, c \in ColumnLists}

EngineErrors ==
    {Raise("CatalogException", <<"Table with name service_requests does not exist!">>),
     Raise("Exception", <<"DB Error">>)}

\* db.description: a tuple per column whose first entry is the name, or None
DescriptionOf(c) == [i \in 1..Len(c) |-> [name |-> c[i]]]

\* what one db.execute(...).fetchall() followed by db.description can do
EngineResponses ==
    {[kind |-> k, err |-> e, rows |-> <<>>, hasDescription |-> FALSE, description |-> <<>>] :
        k \in {"execute_raises", "fetchall_raises"}, e \in EngineErrors}
    \cup
    {[kind |-> "rows", err |-> NoExc, rows |-> r, hasDescription |-> TRUE,
      description |-> DescriptionOf(c)] : r \in RowSeqs, c \in ColumnLists}
    \cup
    {[kind |-> "rows", err |-> NoExc, rows |-> r, hasDescription |-> FALSE,
      description |-> <<>>] : r \in RowSeqs}

T_SERVICE_REQUESTS ==
    <<"S", "E", "R", "V", "I", "C", "E", "_", "R", "E", "Q", "U", "E", "S", "T", "S">>

\* the engine's answers to a statement: one that names service_requests while the
\* catalog has no such table can only fail in execute
EngineAnswers(q, cat) ==
    IF ~cat.table /\ Contains(Upper(q), T_SERVICE_REQUESTS)
    THEN {[kind |-> "execute_raises",
           err |-> Raise("CatalogException",
                         <<"Table with name service_requests does not exist!">>),
           rows |-> <<>>, hasDescription |-> FALSE, description |-> <<>>]}
    ELSE EngineResponses

\* the engine runs every statement of a text: COPY service_requests FROM '<file>'
\* appends the file's rows to the table (further appends are not told apart)
AfterStatements(cat, q) ==
    IF cat.table /\ Contains(Upper(q), T_COPY_FROM)
    THEN [cat EXCEPT !.rows = IF @ <= 2 THEN @ + 2 ELSE @]
    ELSE cat

\* the params argument: None, or a mapping given as its set of (name, value) pairs
ParamsNone == [isNone |-> TRUE, map |-> {}]
ParamsEmpty == [isNone |-> FALSE, map |-> {}]
ParamsTable == [isNone |-> FALSE, map |-> {<<"table", "test_table">>}]
ParamChoices == {ParamsNone, ParamsEmpty, ParamsTable}

\* a plausible slip: `if params is not None`
Truthy_NotNone(p) == ~p.isNone

\* bool(params)
Truthy(p) == ~p.isNone /\ p.map # {}

----------------------------------------------------------------------------
(* DatabaseManager.execute_query *)

PreviewLen == 100

\* a plausible slip: a query of exactly 100 characters is cut as well
QueryPreview_AtLeast(q) ==
    IF Len(q) >= PreviewLen THEN Prefix(q, PreviewLen) \o T_ELLIPSIS ELSE q

\* query[:100] + "..." if len(query) > 100 else query
QueryPreview(q) == IF Len(q) > PreviewLen THEN Prefix(q, PreviewLen) \o T_ELLIPSIS ELSE q

\* logger.info("Executing query", extra={...})
StartEvent(q, p) ==
    [level |-> "INFO", message |-> <<"Executing query">>,
     extra |-> [query_preview |-> QueryPreview(q),
                has_params |-> Truthy(p),
                param_count |-> IF Truthy(p) THEN Cardinality(p.map) ELSE 0]]

\* a plausible slip: the two counts are exchanged
SuccessEvent_Swapped(dicts, cols, ms) ==
    [level |-> "INFO", message |-> <<"Query executed successfully">>,
     extra |-> [row_count |-> Len(cols),
                execution_time_ms |-> ms,
                column_count |-> Len(dicts)]]

\* logger.info("Query executed successfully", extra={...})
SuccessEvent(dicts, cols, ms) ==
    [level |-> "INFO", message |-> <<"Query executed successfully">>,
     extra |-> [row_count |-> Len(dicts),
                execution_time_ms |-> ms,
                column_count |-> Len(cols)]]

\* logger.error("Database query failed", extra={...})
FailureEvent(q, e, ms) ==
    [level |-> "ERROR", message |-> <<"Database query failed">>,
     extra |-> [error_type |-> e.type,
                error_message |-> e.msg,
                execution_time_ms |-> ms,
                query_preview |-> QueryPreview(q)]]

\* self.db.execute(query, params) if params else self.db.execute(query)
EngineCall(q, p) ==
    IF Truthy(p) THEN [text |-> q, nargs |-> 2, params |-> p.map]
    ELSE [text |-> q, nargs |-> 1, params |-> {}]

\* a plausible slip: a key already present is not overwritten
RECURSIVE DictZip_FirstWins(_, _, _)
DictZip_FirstWins(cols, row, k) ==
    IF k = 0 THEN [n \in {} |-> 0]
    ELSE LET d == DictZip_FirstWins(cols, row, k - 1)
         IN  [n \in (DOMAIN d) \cup {cols[k]} |-> IF n \in DOMAIN d THEN d[n] ELSE row[k]]

\* dict(zip(columns, row)) built pair by pair: a later pair overwrites an earlier key
RECURSIVE DictZip(_, _, _)
DictZip(cols, row, k) ==
    IF k = 0 THEN [n \in {} |-> 0]
    ELSE LET d == DictZip(cols, row, k - 1)
         IN  [n \in (DOMAIN d) \cup {cols[k]} |-> IF n = cols[k] THEN row[k] ELSE d[n]]

\* zip(columns, row, strict=True) raises ValueError when the lengths differ
ZipError(cols, row) ==
    IF Len(row) < Len(cols)
    THEN Raise("ValueError", <<"zip() argument 2 is shorter than argument 1">>)
    ELSE Raise("ValueError", <<"zip() argument 2 is longer than argument 1">>)

\* the rows of fetchall() whose conversion raises
BadRows(cols, rws) == {i \in 1..Len(rws) : Len(rws[i]) # Len(cols)}

\* [dict(zip(columns, row, strict=True)) for row in result]
ResultDicts(cols, rws) == [i \in 1..Len(rws) |-> DictZip(cols, rws[i], Len(cols))]

----------------------------------------------------------------------------
(* The data file, the engine's catalog and the statements of AppContext *)

\* the model attaches the first MaxColumns entries of the fixed column list
MaxColumns == 3
\* at most MaxConstructions AppContext objects are built on one connection
MaxConstructions == 2

\* models.py, lines 44-86: the fixed list of (column name, description) pairs
column_comments ==
    <<<<"unique_key", "Unique identifier for each service request">>,
      <<"created_date", "Date/time the request was created">>,
      <<"closed_date", "Date/time the request was closed">>,
      <<"agency", "The agency responsible for the request">>,
      <<"agency_name", "Full name of the responsible agency">>,
      <<"complaint_type", "Type of complaint/request">>,
      <<"descriptor", "Detailed description of the issue">>,
      <<"location_type", "Type of location where issue occurred">>,
      <<"incident_zip", "ZIP code of the incident">>,
      <<"incident_address", "Street address of the incident">>,
      <<"street_name", "Name of the street">>,
      <<"cross_street_1", "First cross street">>,
      <<"cross_street_2", "Second cross street">>,
      <<"intersection_street_1", "First intersection street">>,
      <<"intersection_street_2", "Second intersection street">>,
      <<"address_type", "Type of address">>,
      <<"city", "City name">>,
      <<"landmark", "Nearby landmark">>,
      <<"facility_type", "Type of facility">>,
      <<"status", "Current status of the request">>,
      <<"due_date", "Due date for resolution">>,
      <<"resolution_description", "Description of resolution">>,
      <<"resolution_action_updated_date", "Date resolution was updated">>,
      <<"community_board", "Community board identifier">>,
      <<"bbl", "Borough, Block, and Lot number">>,
      <<"borough", "NYC borough name">>,
      <<"x_coordinate_state_plane", "X coordinate (State Plane)">>,
      <<"y_coordinate_state_plane", "Y coordinate (State Plane)">>,
      <<"open_data_channel_type", "Channel used to submit request">>,
      <<"park_facility_name", "Name of park facility">>,
      <<"park_borough", "Borough of the park">>,
      <<"vehicle_type", "Type of vehicle involved">>,
      <<"taxi_company_borough", "Borough of taxi company">>,
      <<"taxi_pick_up_location", "Taxi pickup location">>,
      <<"bridge_highway_name", "Name of bridge or highway">>,
      <<"bridge_highway_direction", "Direction on bridge/highway">>,
      <<"road_ramp", "Road ramp information">>,
      <<"bridge_highway_segment", "Bridge/highway segment">>,
      <<"latitude", "Latitude coordinate">>,
      <<"longitude", "Longitude coordinate">>,
      <<"location", "Combined location information">>>>

\* for column_name, comment in column_comments.items()
ListedColumns == SubSeq(column_comments, 1, MaxColumns)

ListedNames == [i \in 1..Len(ListedColumns) |-> ListedColumns[i][1]]

\* models.py, line 40: the text of the table comment
TableCommentText ==
    "NYC 311 Service Requests data for 2024 containing complaint information, locations, agencies, and resolution details"

\* the data file: absent, readable (a version of its rows and the listed columns it
\* has, in list order) or unreadable by the engine
DataFiles ==
    {[state |-> "absent", version |-> 0, cols |-> <<>>],
     [state |-> "corrupt", version |-> 0, cols |-> <<>>]}
    \cup
    {[state |-> "ok", version |-> v,
      cols |-> SelectSeq(ListedNames, LAMBDA n : n \in S)] :
        v \in {1, 2}, S \in SUBSET {ListedNames[i] : i \in 1..Len(ListedNames)}}

\* the catalog of the connection: the service_requests table, if any, the file version
\* its rows were loaded from, its columns and the comments attached to it
EmptyCatalog ==
    [table |-> FALSE, rows |-> 0, cols |-> <<>>, tableComment |-> <<>>, comments |-> {}]

\* the catalog of a connection whose context is Ready: the table loaded from a file
\* with every listed column, every comment attached
ReadyCatalog ==
    [table |-> TRUE, rows |-> 1, cols |-> ListedNames,
     tableComment |-> <<TableCommentText>>,
     comments |-> {ListedColumns[i] : i \in 1..Len(ListedColumns)}]

\* the statements issued on the connection by AppContext and by the schema report
Stmt(kind, column) == [kind |-> kind, column |-> column]
StmtCreate == Stmt("CREATE TABLE IF NOT EXISTS service_requests", "")
StmtCommentTable == Stmt("COMMENT ON TABLE service_requests", "")
StmtCommentColumn(c) == Stmt("COMMENT ON COLUMN service_requests", c)

\* the engine's errors
IOError == Raise("IOException", <<"No magic bytes found at end of file">>)
ParserError == Raise("ParserException", <<"syntax error at or near \"COMMENT\"">>)
CatalogError == Raise("CatalogException", <<"Table with name service_requests does not exist!">>)
BinderError(c) == Raise("BinderException", <<"Column does not exist: ", c>>)

\* CREATE TABLE IF NOT EXISTS service_requests AS SELECT * FROM '<file>':
\* the errors the engine can answer with (<<>>: it succeeds).  With the table present
\* and the file unreadable or missing the engine either skips the statement or fails reading.
CreateAnswers(cat, f) ==
    IF f.state # "ok"
    THEN IF cat.table THEN {<<>>, <<IOError>>} ELSE {<<IOError>>}
    ELSE {<<>>}

\* CREATE OR REPLACE TABLE: every create loads the file again
AfterCreate_Replace(cat, f) ==
    [cat EXCEPT !.table = TRUE, !.rows = f.version, !.cols = f.cols, !.tableComment = <<>>,
                !.comments = {}]

\* the catalog after a successful create: unchanged when the table exists
AfterCreate(cat, f) ==
    IF cat.table THEN cat
    ELSE [cat EXCEPT !.table = TRUE, !.rows = f.version, !.cols = f.cols]

\* COMMENT ON TABLE service_requests IS '...'
CommentTableAnswer(cat, supported) ==
    IF ~supported THEN <<ParserError>>
    ELSE IF ~cat.table THEN <<CatalogError>>
    ELSE <<>>

AfterCommentTable(cat) == [cat EXCEPT !.tableComment = <<TableCommentText>>]

\* COMMENT ON COLUMN service_requests.<c> IS '...'
CommentColumnAnswer(cat, supported, c) ==
    IF ~supported THEN <<ParserError>>
    ELSE IF ~cat.table THEN <<CatalogError>>
    ELSE IF \A i \in 1..Len(cat.cols) : cat.cols[i] # c THEN <<BinderError(c)>>
    ELSE <<>>

AfterCommentColumn(cat, pair) ==
    [cat EXCEPT !.comments = {p \in cat.comments : p[1] # pair[1]} \cup {pair}]

----------------------------------------------------------------------------
(* ServerConfig, the logging registry and the event loop *)

\* the event loop runs at most MaxTasks requests at once
MaxTasks == 2
\* setup_logger is called at most MaxSetupCalls times
MaxSetupCalls == 4

\* config.ServerConfig: the two keyword tuples
default_config ==
    [allowed_sql_keywords |-> <<"SELECT", "WITH", "ORDER", "GROUP", "HAVING", "LIMIT">>,
     forbidden_sql_keywords |->
        <<"DROP", "DELETE", "UPDATE", "INSERT", "ALTER", "CREATE", "TRUNCATE", "EXEC",
          "EXECUTE">>]

\* other values the two fields can be given
Configs ==
    {default_config,
     [default_config EXCEPT !.forbidden_sql_keywords = <<>>],
     [default_config EXCEPT !.allowed_sql_keywords = <<"SELECT", "DROP">>,
                            !.forbidden_sql_keywords = <<"PRAGMA">>]}

\* the logger names of logging.getLogger
LoggerNames == {"data_mcp.server", "test_logger", "__main__"}

\* a logger as logging.getLogger creates it
NewLogger == [level |-> "NOTSET", handlers |-> <<>>, propagate |-> TRUE]

\* a request slot of the event loop with no request in it
IdleTask == [op |-> "none", steps |-> <<>>, at |-> 0, state |-> "idle"]

----------------------------------------------------------------------------
(* State *)

request == <<entry, sql, params, hasCtx>>
locals == <<cursor, rows, columns, resultDicts, elapsed>>
ending == <<outcome, returned>>
runtime == <<commentsSupported, config, loggers, setupCalls, tasks, running, stmtOpen, wire>>
world == <<dataFile, runtime, catalog, conn, closeCalls>>
cycle == <<lifespan, lifespanLog, lsExc, served>>
building == <<stmts, colIdx, constructions>>
reporting == <<commentsDict, schemaRows, basicCalls>>
server == <<world, cycle, building, reporting>>

NoCursor ==
    [kind |-> "none", err |-> NoExc, rows |-> <<>>, hasDescription |-> FALSE,
     description |-> <<>>]

Init ==
    /\ entry = "none"
    /\ sql = <<>>
    /\ params = ParamsNone
    /\ hasCtx = FALSE
    /\ pc = "idle"
    /\ validated = "no"
    /\ logEvents = <<>>
    /\ engineCalls = <<>>
    /\ clientEvents = <<>>
    /\ cursor = NoCursor
    /\ rows = <<>>
    /\ columns = <<>>
    /\ resultDicts = <<>>
    /\ elapsed = 0
    /\ exc = NoExc
    /\ outcome = "pending"
    /\ returned = <<>>
    /\ dataFile = [state |-> "ok", version |-> 1, cols |-> ListedNames]
    /\ commentsSupported = TRUE
    /\ catalog = ReadyCatalog
    /\ conn = "open"
    /\ closeCalls = 0
    /\ stmts = <<>>
    /\ lifespan = "off"
    /\ lifespanLog = <<>>
    /\ lsExc = NoExc
    /\ served = FALSE
    /\ colIdx = 0
    /\ constructions = 0
    /\ commentsDict = {}
    /\ schemaRows = <<>>
    /\ basicCalls = 0
    /\ config = default_config
    /\ loggers = [n \in LoggerNames |-> NewLogger]
    /\ setupCalls = 0
    /\ tasks = [t \in 1..MaxTasks |-> IdleTask]
    /\ running = 0
    /\ stmtOpen = {}
    /\ wire = <<>>

\* a new call starts with nothing observed yet
Begin(op, s, p, c, at) ==
    /\ UNCHANGED server
    /\ pc = "idle"
    /\ entry' = op
    /\ sql' = s
    /\ params' = p
    /\ hasCtx' = c
    /\ pc' = at
    /\ validated' = "no"
    /\ logEvents' = <<>>
    /\ engineCalls' = <<>>
    /\ clientEvents' = <<>>
    /\ cursor' = NoCursor
    /\ rows' = <<>>
    /\ columns' = <<>>
    /\ resultDicts' = <<>>
    /\ elapsed' = 0
    /\ exc' = NoExc
    /\ outcome' = "pending"
    /\ returned' = <<>>

\* the call ends by returning v
Return(v) ==
    /\ pc' = "done"
    /\ outcome' = "returned"
    /\ returned' = <<v>>

\* the call ends by raising e
Propagate(e) ==
    /\ pc' = "done"
    /\ outcome' = "raised"
    /\ exc' = e
    /\ UNCHANGED returned

\* the caller has taken the result or the exception of the finished call
Collect ==
    /\ UNCHANGED <<world, cycle, building>>
    /\ commentsDict' = {}
    /\ schemaRows' = <<>>
    /\ basicCalls' = 0
    /\ pc = "done"
    /\ entry' = "none"
    /\ sql' = <<>>
    /\ params' = ParamsNone
    /\ hasCtx' = FALSE
    /\ pc' = "idle"
    /\ validated' = "no"
    /\ logEvents' = <<>>
    /\ engineCalls' = <<>>
    /\ clientEvents' = <<>>
    /\ cursor' = NoCursor
    /\ rows' = <<>>
    /\ columns' = <<>>
    /\ resultDicts' = <<>>
    /\ elapsed' = 0
    /\ exc' = NoExc
    /\ outcome' = "pending"
    /\ returned' = <<>>

----------------------------------------------------------------------------
(* validate_sql_query called on its own *)

CallValidate(s) == Begin("validate", s, ParamsNone, FALSE, "v_91")

DoValidate ==
    /\ UNCHANGED server
    /\ pc = "v_91"
    /\ LET e == ValidateSqlQuery(sql)
       IN  IF e = NoExc
           THEN validated' = "passed" /\ Return(None) /\ UNCHANGED exc
           ELSE validated' = "rejected" /\ Propagate(e)
    /\ UNCHANGED <<request, locals, logEvents, engineCalls, clientEvents>>

----------------------------------------------------------------------------
(* execute_query, called on its own or from query_data *)

CallExecuteQuery(s, p) == Begin("execute_query", s, p, FALSE, "eq_39")

\* lines 37-46
EQ_LogStart ==
    /\ UNCHANGED server
    /\ pc = "eq_39"
    /\ logEvents' = Append(logEvents, StartEvent(sql, params))
    /\ pc' = "eq_49"
    /\ UNCHANGED <<request, locals, validated, engineCalls, clientEvents, exc, ending>>

\* lines 49-52: self.db.execute(...)
EQ_Execute ==
    /\ UNCHANGED <<dataFile, runtime, conn, closeCalls, cycle, building, reporting>>
    /\ pc = "eq_49"
    /\ \E resp \in EngineAnswers(sql, catalog) :
        /\ cursor' = resp
        /\ catalog' = IF resp.kind = "execute_raises" THEN catalog
                      ELSE AfterStatements(catalog, sql)
        /\ engineCalls' = Append(engineCalls, EngineCall(sql, params))
        /\ IF resp.kind = "execute_raises"
           THEN exc' = resp.err /\ pc' = "eq_69"
           ELSE pc' = "eq_fetchall" /\ UNCHANGED exc
    /\ UNCHANGED <<request, rows, columns, resultDicts, elapsed, validated, logEvents,
                   clientEvents, ending>>

\* lines 49-52: .fetchall()
EQ_Fetchall ==
    /\ UNCHANGED server
    /\ pc = "eq_fetchall"
    /\ IF cursor.kind = "fetchall_raises"
       THEN exc' = cursor.err /\ pc' = "eq_69" /\ UNCHANGED rows
       ELSE rows' = cursor.rows /\ pc' = "eq_54" /\ UNCHANGED exc
    /\ UNCHANGED <<request, cursor, columns, resultDicts, elapsed, validated, logEvents,
                   engineCalls, clientEvents, ending>>

\* line 54: columns = [desc[0] for desc in self.db.description]
EQ_Columns ==
    /\ UNCHANGED server
    /\ pc = "eq_54"
    /\ IF cursor.hasDescription
       THEN /\ columns' = [i \in 1..Len(cursor.description) |-> cursor.description[i].name]
            /\ pc' = "eq_55"
            /\ UNCHANGED exc
       ELSE /\ exc' = Raise("TypeError", <<"'NoneType' object is not iterable">>)
            /\ pc' = "eq_69"
            /\ UNCHANGED columns
    /\ UNCHANGED <<request, cursor, rows, resultDicts, elapsed, validated, logEvents,
                   engineCalls, clientEvents, ending>>

\* line 55: result_dicts = [dict(zip(columns, row, strict=True)) for row in result]
EQ_Convert ==
    /\ UNCHANGED server
    /\ pc = "eq_55"
    /\ LET bad == BadRows(columns, rows)
       IN  IF bad = {}
           THEN /\ resultDicts' = ResultDicts(columns, rows)
                /\ pc' = "eq_57"
                /\ UNCHANGED exc
           ELSE /\ exc' = ZipError(columns, rows[CHOOSE i \in bad : \A j \in bad : i <= j])
                /\ pc' = "eq_69"
                /\ UNCHANGED resultDicts
    /\ UNCHANGED <<request, cursor, rows, columns, elapsed, validated, logEvents,
                   engineCalls, clientEvents, ending>>

\* lines 57-65
EQ_LogSuccess ==
    /\ UNCHANGED server
    /\ pc = "eq_57"
    /\ \E ms \in 0..MaxElapsed :
        /\ elapsed' = ms
        /\ logEvents' = Append(logEvents, SuccessEvent(resultDicts, columns, ms))
    /\ pc' = "eq_66"
    /\ UNCHANGED <<request, cursor, rows, columns, resultDicts, validated, engineCalls,
                   clientEvents, exc, ending>>

\* line 66: return result_dicts
EQ_Return ==
    /\ UNCHANGED server
    /\ pc = "eq_66"
    /\ IF entry = "execute_query"
       THEN Return(resultDicts)
       ELSE pc' = "qd_105" /\ UNCHANGED ending
    /\ UNCHANGED <<request, locals, validated, logEvents, engineCalls, clientEvents, exc>>

\* a plausible slip: the handler re-raises without logging
EQ_LogFailure_Silent ==
    /\ UNCHANGED server
    /\ pc = "eq_69"
    /\ \E ms \in 0..MaxElapsed : elapsed' = ms
    /\ pc' = "eq_79"
    /\ UNCHANGED <<request, cursor, rows, columns, resultDicts, validated, logEvents,
                   engineCalls, clientEvents, exc, ending>>

\* lines 68-78
EQ_LogFailure ==
    /\ UNCHANGED server
    /\ pc = "eq_69"
    /\ \E ms \in 0..MaxElapsed :
        /\ elapsed' = ms
        /\ logEvents' = Append(logEvents, FailureEvent(sql, exc, ms))
    /\ pc' = "eq_79"
    /\ UNCHANGED <<request, cursor, rows, columns, resultDicts, validated, engineCalls,
                   clientEvents, exc, ending>>

\* line 79: raise DatabaseError(f"Query execution failed: {e}") from e
EQ_Raise ==
    /\ UNCHANGED server
    /\ pc = "eq_79"
    /\ LET e == RaiseFrom("DatabaseError", "Query execution failed: ", exc)
       IN  IF entry = "execute_query"
           THEN Propagate(e)
           ELSE exc' = e /\ pc' = "qd_114" /\ UNCHANGED ending
    /\ UNCHANGED <<request, locals, validated, logEvents, engineCalls, clientEvents>>

----------------------------------------------------------------------------
(* The client context ctx and the request context lookup *)

\* a notification through ctx; progress is in tenths of the total 1.0
Notice(kind, msg) == [kind |-> kind, msg |-> msg, progress |-> -1, rows |-> -1]
Progress(tenths, msg) == [kind |-> "progress", msg |-> <<msg>>, progress |-> tenths, rows |-> -1]

\* what a failing ctx call raises
CtxError == Raise("RuntimeError", <<"client session closed">>)

\* what a failing mcp.get_context() ... lifespan_context.db raises
ContextLookupError == Raise("ValueError", <<"Context is not available outside of a request">>)

\* await ctx.<call>(...) inside the try block: delivered, or raises into the handlers
CtxCall(ev, next) ==
    \E delivered \in BOOLEAN :
        IF delivered
        THEN clientEvents' = Append(clientEvents, ev) /\ pc' = next /\ UNCHANGED exc
        ELSE exc' = CtxError /\ pc' = "qd_119" /\ UNCHANGED clientEvents

\* await ctx.error(...) inside a handler: delivered, or its exception leaves query_data
CtxErrorCall(ev, next) ==
    \E delivered \in BOOLEAN :
        IF delivered
        THEN clientEvents' = Append(clientEvents, ev) /\ pc' = next
             /\ UNCHANGED <<exc, ending>>
        ELSE Propagate(CtxError) /\ UNCHANGED clientEvents

----------------------------------------------------------------------------
(* server.query_data *)

CallQueryData(s, c) == Begin("query_data", s, ParamsNone, c, "qd_81")

\* lines 81-82
QD_EmptyGuard ==
    /\ UNCHANGED server
    /\ pc = "qd_81"
    /\ IF IsBlank(sql)
       THEN Propagate(Raise("ValidationError", <<MsgEmpty>>))
       ELSE pc' = "qd_85" /\ UNCHANGED <<exc, ending>>
    /\ UNCHANGED <<request, locals, validated, logEvents, engineCalls, clientEvents>>

\* lines 85-86
QD_NotifyProcessing ==
    /\ UNCHANGED server
    /\ pc = "qd_85"
    /\ IF hasCtx
       THEN CtxCall(Notice("info", <<"Processing SQL query request">>), "qd_88")
       ELSE pc' = "qd_88" /\ UNCHANGED <<exc, clientEvents>>
    /\ UNCHANGED <<request, locals, validated, logEvents, engineCalls, ending>>

\* lines 88-91
QD_GetContext ==
    /\ UNCHANGED server
    /\ pc = "qd_88"
    /\ \E found \in BOOLEAN :
        IF found
        THEN pc' = "qd_94" /\ UNCHANGED exc
        ELSE exc' = ContextLookupError /\ pc' = "qd_119"
    /\ UNCHANGED <<request, locals, validated, logEvents, engineCalls, clientEvents, ending>>

\* a plausible slip: the validator's exception is swallowed and the request goes on
QD_Validate_Ignored ==
    /\ UNCHANGED server
    /\ pc = "qd_94"
    /\ validated' = (IF ValidateSqlQuery(sql) = NoExc THEN "passed" ELSE "rejected")
    /\ pc' = "qd_96"
    /\ UNCHANGED <<request, locals, logEvents, engineCalls, clientEvents, exc, ending>>

\* line 94
QD_Validate ==
    /\ UNCHANGED server
    /\ pc = "qd_94"
    /\ LET e == ValidateSqlQuery(sql)
       IN  IF e = NoExc
           THEN validated' = "passed" /\ pc' = "qd_96" /\ UNCHANGED exc
           ELSE validated' = "rejected" /\ exc' = e /\ pc' = "qd_114"
    /\ UNCHANGED <<request, locals, logEvents, engineCalls, clientEvents, ending>>

\* lines 96-97
QD_NotifyValidated ==
    /\ UNCHANGED server
    /\ pc = "qd_96"
    /\ IF hasCtx
       THEN CtxCall(Notice("debug", <<"Query validation passed, executing...">>), "qd_98")
       ELSE pc' = "qd_103" /\ UNCHANGED <<exc, clientEvents>>
    /\ UNCHANGED <<request, locals, validated, logEvents, engineCalls, ending>>

\* lines 98-100
QD_ProgressValidated ==
    /\ UNCHANGED server
    /\ pc = "qd_98"
    /\ CtxCall(Progress(3, "Validation complete, executing query..."), "qd_103")
    /\ UNCHANGED <<request, locals, validated, logEvents, engineCalls, ending>>

\* a plausible slip: the handler passes a parameter mapping along with the text
QD_CallExecute_Bound ==
    /\ UNCHANGED server
    /\ pc = "qd_103"
    /\ pc' = "eq_39"
    /\ params' = ParamsTable
    /\ UNCHANGED <<entry, sql, hasCtx, locals, validated, logEvents, engineCalls,
                   clientEvents, exc, ending>>

\* line 103: result = db_manager.execute_query(sql)
QD_CallExecute ==
    /\ UNCHANGED server
    /\ pc = "qd_103"
    /\ pc' = "eq_39"
    /\ params' = ParamsNone
    /\ UNCHANGED <<entry, sql, hasCtx, locals, validated, logEvents, engineCalls,
                   clientEvents, exc, ending>>

\* lines 105-108
QD_ProgressExecuted ==
    /\ UNCHANGED server
    /\ pc = "qd_105"
    /\ IF hasCtx
       THEN CtxCall(Progress(9, "Query execution complete, formatting results..."), "qd_109")
       ELSE pc' = "qd_112" /\ UNCHANGED <<exc, clientEvents>>
    /\ UNCHANGED <<request, locals, validated, logEvents, engineCalls, ending>>

\* line 109
QD_NotifyCompleted ==
    /\ UNCHANGED server
    /\ pc = "qd_109"
    /\ CtxCall([kind |-> "info", msg |-> <<"Query completed successfully with ", " rows">>,
                progress |-> -1, rows |-> Len(resultDicts)], "qd_110")
    /\ UNCHANGED <<request, locals, validated, logEvents, engineCalls, ending>>

\* line 110
QD_ProgressReady ==
    /\ UNCHANGED server
    /\ pc = "qd_110"
    /\ CtxCall(Progress(10, "Results ready"), "qd_112")
    /\ UNCHANGED <<request, locals, validated, logEvents, engineCalls, ending>>

\* line 112: return result
QD_Return ==
    /\ UNCHANGED server
    /\ pc = "qd_112"
    /\ Return(resultDicts)
    /\ UNCHANGED <<request, locals, validated, logEvents, engineCalls, clientEvents, exc>>

\* a plausible slip: the handler re-raises without telling the client
QD_NotifyFailed_Silent ==
    /\ UNCHANGED server
    /\ pc = "qd_114"
    /\ pc' = "qd_117"
    /\ UNCHANGED <<request, locals, validated, logEvents, engineCalls, clientEvents, exc,
                   ending>>

\* lines 114-116: except (DatabaseError, ValidationError)
QD_NotifyFailed ==
    /\ UNCHANGED server
    /\ pc = "qd_114"
    /\ IF hasCtx
       THEN CtxErrorCall(Notice("error", <<"Query failed validation or execution">>), "qd_117")
       ELSE pc' = "qd_117" /\ UNCHANGED <<exc, clientEvents, ending>>
    /\ UNCHANGED <<request, locals, validated, logEvents, engineCalls>>

\* line 117: raise
QD_Reraise ==
    /\ UNCHANGED server
    /\ pc = "qd_117"
    /\ Propagate(exc)
    /\ UNCHANGED <<request, locals, validated, logEvents, engineCalls, clientEvents>>

\* lines 118-119: except Exception as e: logger.error(...)
QD_LogUnexpected ==
    /\ UNCHANGED server
    /\ pc = "qd_119"
    /\ logEvents' = Append(logEvents,
                           [level |-> "ERROR",
                            message |-> <<"Unexpected error in query_data: ">> \o exc.msg,
                            extra |-> [n \in {} |-> 0]])
    /\ pc' = "qd_120"
    /\ UNCHANGED <<request, locals, validated, engineCalls, clientEvents, exc, ending>>

\* lines 120-121
QD_NotifyUnexpected ==
    /\ UNCHANGED server
    /\ pc = "qd_120"
    /\ IF hasCtx
       THEN CtxErrorCall(Notice("error", <<"Unexpected error: ">> \o exc.msg), "qd_122")
       ELSE pc' = "qd_122" /\ UNCHANGED <<exc, clientEvents, ending>>
    /\ UNCHANGED <<request, locals, validated, logEvents, engineCalls>>

\* line 122: raise DatabaseError(f"Failed to execute query: {e}") from e
QD_RaiseUnexpected ==
    /\ UNCHANGED server
    /\ pc = "qd_122"
    /\ Propagate(RaiseFrom("DatabaseError", "Failed to execute query: ", exc))
    /\ UNCHANGED <<request, locals, validated, logEvents, engineCalls, clientEvents>>

----------------------------------------------------------------------------
(* models.AppContext: __post_init__ and _initialize_tables *)

calls == <<validated, logEvents, engineCalls, clientEvents>>

\* a call of the server side starts: nothing of an earlier call is left
StartCtx(op, c, at) ==
    /\ pc = "idle"
    /\ entry' = op
    /\ pc' = at
    /\ sql' = <<>>
    /\ params' = ParamsNone
    /\ hasCtx' = c
    /\ validated' = "no"
    /\ logEvents' = <<>>
    /\ engineCalls' = <<>>
    /\ clientEvents' = <<>>
    /\ cursor' = NoCursor
    /\ rows' = <<>>
    /\ columns' = <<>>
    /\ resultDicts' = <<>>
    /\ elapsed' = 0
    /\ exc' = NoExc
    /\ outcome' = "pending"
    /\ returned' = <<>>

Start(op, at) == StartCtx(op, FALSE, at)

\* AppContext(db=db, data_dir=data_dir) called on an open connection
CallAppContext ==
    /\ lifespan = "off"
    /\ conn = "open"
    /\ constructions < MaxConstructions
    /\ Start("AppContext", "ac_31")
    /\ constructions' = constructions + 1
    /\ stmts' = <<>>
    /\ colIdx' = 0
    /\ UNCHANGED <<world, cycle, reporting>>

\* what no step of _initialize_tables touches
acFrame ==
    <<request, locals, calls, dataFile, runtime, conn, closeCalls, lifespanLog,
      served, constructions, reporting>>

\* the constructor returns: to its caller, or into app_lifespan (line 34)
ConstructionReturns ==
    IF lifespan = "ls_34"
    THEN pc' = "idle" /\ lifespan' = "ls_35" /\ UNCHANGED <<ending, exc, lsExc>>
    ELSE Return(None) /\ UNCHANGED <<exc, lifespan, lsExc>>

\* the constructor raises e: to its caller, or into app_lifespan (line 38)
ConstructionRaises(e) ==
    IF lifespan = "ls_34"
    THEN pc' = "idle" /\ lifespan' = "ls_39" /\ lsExc' = e /\ exc' = NoExc
         /\ UNCHANGED ending
    ELSE Propagate(e) /\ UNCHANGED <<lifespan, lsExc>>

\* a plausible slip: the file is loaded without the exists() test
AC_FileExists_NoTest ==
    /\ pc = "ac_31"
    /\ pc' = "ac_33"
    /\ UNCHANGED <<acFrame, stmts, catalog, colIdx, ending, exc, lifespan, lsExc>>

\* lines 27-31: if service_requests_file.exists()
AC_FileExists ==
    /\ pc = "ac_31"
    /\ IF dataFile.state = "absent"
       THEN ConstructionReturns
       ELSE pc' = "ac_33" /\ UNCHANGED <<ending, exc, lifespan, lsExc>>
    /\ UNCHANGED <<acFrame, stmts, catalog, colIdx>>

\* lines 33-36: CREATE TABLE IF NOT EXISTS service_requests AS SELECT * FROM '<file>'
AC_CreateTable ==
    /\ pc = "ac_33"
    /\ stmts' = Append(stmts, StmtCreate)
    /\ \E a \in CreateAnswers(catalog, dataFile) :
        IF a = <<>>
        THEN catalog' = AfterCreate(catalog, dataFile) /\ pc' = "ac_39" /\ UNCHANGED exc
        ELSE exc' = a[1] /\ pc' = "ac_96" /\ UNCHANGED catalog
    /\ UNCHANGED <<acFrame, colIdx, ending, lifespan, lsExc>>

\* a plausible slip: the table comment suppressed like the column comments
AC_CommentTable_Suppressed ==
    /\ pc = "ac_39"
    /\ stmts' = Append(stmts, StmtCommentTable)
    /\ LET a == CommentTableAnswer(catalog, commentsSupported)
       IN  catalog' = IF a = <<>> THEN AfterCommentTable(catalog) ELSE catalog
    /\ pc' = "ac_89"
    /\ colIdx' = 1
    /\ UNCHANGED <<acFrame, exc, ending, lifespan, lsExc>>

\* lines 39-41: COMMENT ON TABLE service_requests IS '...'
AC_CommentTable ==
    /\ pc = "ac_39"
    /\ stmts' = Append(stmts, StmtCommentTable)
    /\ LET a == CommentTableAnswer(catalog, commentsSupported)
       IN  IF a = <<>>
           THEN /\ catalog' = AfterCommentTable(catalog)
                /\ pc' = "ac_89"
                /\ colIdx' = 1
                /\ UNCHANGED exc
           ELSE exc' = a[1] /\ pc' = "ac_96" /\ UNCHANGED <<catalog, colIdx>>
    /\ UNCHANGED <<acFrame, ending, lifespan, lsExc>>

\* the column loop walking the list backwards
AC_CommentColumn_Reversed ==
    /\ pc = "ac_89"
    /\ colIdx <= Len(ListedColumns)
    /\ LET pair == ListedColumns[Len(ListedColumns) + 1 - colIdx]
           a == CommentColumnAnswer(catalog, commentsSupported, pair[1])
       IN  /\ stmts' = Append(stmts, StmtCommentColumn(pair[1]))
           /\ catalog' = IF a = <<>> THEN AfterCommentColumn(catalog, pair) ELSE catalog
    /\ colIdx' = colIdx + 1
    /\ UNCHANGED <<acFrame, pc, exc, ending, lifespan, lsExc>>

\* the column loop without contextlib.suppress: a failed comment ends the loop
AC_CommentColumn_Abort ==
    /\ pc = "ac_89"
    /\ colIdx <= Len(ListedColumns)
    /\ LET pair == ListedColumns[colIdx]
           a == CommentColumnAnswer(catalog, commentsSupported, pair[1])
       IN  /\ stmts' = Append(stmts, StmtCommentColumn(pair[1]))
           /\ IF a = <<>>
              THEN /\ catalog' = AfterCommentColumn(catalog, pair)
                   /\ colIdx' = colIdx + 1
                   /\ UNCHANGED <<pc, exc>>
              ELSE /\ exc' = a[1]
                   /\ pc' = "ac_96"
                   /\ UNCHANGED <<catalog, colIdx>>
    /\ UNCHANGED <<acFrame, ending, lifespan, lsExc>>

\* lines 89-94: one pass of the column loop; contextlib.suppress(Exception) swallows
\* the engine's error
AC_CommentColumn ==
    /\ pc = "ac_89"
    /\ colIdx <= Len(ListedColumns)
    /\ LET pair == ListedColumns[colIdx]
           a == CommentColumnAnswer(catalog, commentsSupported, pair[1])
       IN  /\ stmts' = Append(stmts, StmtCommentColumn(pair[1]))
           /\ catalog' = IF a = <<>> THEN AfterCommentColumn(catalog, pair) ELSE catalog
    /\ colIdx' = colIdx + 1
    /\ UNCHANGED <<acFrame, pc, exc, ending, lifespan, lsExc>>

\* line 89: the column loop ends and _initialize_tables returns
AC_LoopDone ==
    /\ pc = "ac_89"
    /\ colIdx > Len(ListedColumns)
    /\ ConstructionReturns
    /\ UNCHANGED <<acFrame, stmts, catalog, colIdx>>

\* lines 96-97: raise DatabaseError(f"Failed to initialize tables: {e}") from e
AC_Raise ==
    /\ pc = "ac_96"
    /\ ConstructionRaises(RaiseFrom("DatabaseError", "Failed to initialize tables: ", exc))
    /\ UNCHANGED <<acFrame, stmts, catalog, colIdx>>

\* between two calls the data file is replaced, removed or damaged
FileChanges ==
    /\ pc = "idle"
    /\ lifespan = "off"
    /\ dataFile' \in DataFiles \ {dataFile}
    /\ UNCHANGED <<request, locals, calls, pc, exc, ending, runtime, catalog,
                   conn, closeCalls, cycle, building, reporting>>

----------------------------------------------------------------------------
(* DatabaseManager.get_schema_info and _get_basic_schema_info *)

\* the catalog statements of the schema report, one piece per statement
CommentsQuery ==
    <<"SELECT column_name, comment FROM duckdb_columns() WHERE table_name = 'service_requests' AND comment IS NOT NULL">>

SchemaQuery ==
    <<"SELECT column_name, data_type, is_nullable FROM information_schema.columns WHERE table_name = 'service_requests' ORDER BY ordinal_position">>

SchemaHeader == "Service Requests Table Schema:"

SchemaDescription ==
    "NYC 311 Service Requests data for 2024 containing complaint information, locations, agencies, and resolution details"

BasicFailureText == "Error retrieving schema information"

\* a string is a non-empty sequence of lines, a line a sequence of pieces
OneLine(pieces) == <<pieces>>

SchemaErrors == {Raise("ConnectionException", <<"Connection already closed!">>)}

\* the catalogs a schema report can meet: no table, or a table with some of the
\* listed columns, some of them commented, one possibly with the empty text
SchemaCatalogs ==
    {EmptyCatalog,
     [ReadyCatalog EXCEPT
        !.comments = {<<ListedNames[1], "">>} \cup {ListedColumns[i] : i \in 2..Len(ListedColumns)}]}
    \cup
    UNION {{[table |-> TRUE, rows |-> 1, cols |-> SelectSeq(ListedNames, LAMBDA n : n \in S),
             tableComment |-> <<TableCommentText>>, comments |-> K] :
                K \in SUBSET {ListedColumns[i] : i \in {j \in 1..Len(ListedColumns) :
                                                          ListedNames[j] \in S}}} :
           S \in (SUBSET Range(ListedNames)) \ {{}}}

\* data_type of a column of the loaded table
TypeOf(c) == IF c = "unique_key" THEN "BIGINT" ELSE "VARCHAR"

\* the rows of the columns query: (column_name, data_type, is_nullable), the
\* columns in nn being NOT NULL
ColumnRows(cat, nn) ==
    IF cat.table
    THEN [i \in 1..Len(cat.cols) |->
            <<cat.cols[i], TypeOf(cat.cols[i]), IF cat.cols[i] \in nn THEN "NO" ELSE "YES">>]
    ELSE <<>>

NotNullChoices(cat) == IF cat.cols = <<>> THEN {{}} ELSE {{}, {cat.cols[1]}}

\* the rows of the comments query: (column_name, comment) in column order
CommentRows(cat) ==
    LET commented == SelectSeq(cat.cols, LAMBDA c : \E p \in cat.comments : p[1] = c)
    IN  [i \in 1..Len(commented) |-> CHOOSE p \in cat.comments : p[1] = commented[i]]

\* what self.db.execute(comments_query).fetchall() can do
CommentsAnswers(cat) ==
    {[kind |-> "raises", err |-> e, rows |-> <<>>] : e \in SchemaErrors}
    \cup {[kind |-> "rows", err |-> NoExc, rows |-> CommentRows(cat)]}

\* what self.db.execute(schema_query).fetchall() can do
ColumnsAnswers(cat) ==
    {[kind |-> "raises", err |-> e, rows |-> <<>>] : e \in SchemaErrors}
    \cup {[kind |-> "rows", err |-> NoExc, rows |-> ColumnRows(cat, nn)] :
            nn \in NotNullChoices(cat)}

\* {row[0]: row[1] for row in comment_result}: a later row replaces an earlier one
DictOf(rs) ==
    {rs[i] : i \in {j \in 1..Len(rs) : \A k \in (j + 1)..Len(rs) : rs[k][1] # rs[j][1]}}

\* comments_dict.get(col_name, "")
DictGet(d, k) == IF \E p \in d : p[1] = k THEN (CHOOSE p \in d : p[1] = k)[2] ELSE ""

NullableText(nullable) == IF nullable = "YES" THEN "nullable" ELSE "not null"

\* lines 165-172
ColumnLine(row, d) ==
    LET description == DictGet(d, row[1])
    IN  <<"- ", row[1], ": ", row[2], " (", NullableText(row[3]), ")">>
            \o (IF description # "" THEN <<" - ", description>> ELSE <<>>)

\* lines 158-174
FullReport(rs, d) ==
    <<<<SchemaHeader>>, <<SchemaDescription>>, <<>>>>
        \o [i \in 1..Len(rs) |-> ColumnLine(rs[i], d)]

\* line 204
BasicLine(row) == <<"- ", row[1], ": ", row[2], " (", NullableText(row[3]), ")">>

\* lines 200-205
BasicReport(rs) == <<<<SchemaHeader>>>> \o [i \in 1..Len(rs) |-> BasicLine(rs[i])]

CatalogCall(q) == [text |-> q, nargs |-> 1, params |-> {}]

ErrorEvent(pieces) == [level |-> "ERROR", message |-> pieces, extra |-> [n \in {} |-> 0]]

\* what no step of the schema report touches
gsFrame == <<request, locals, validated, clientEvents, world, cycle, building>>

CallGetSchemaInfo ==
    /\ Start("get_schema_info", "gs_139")
    /\ commentsDict' = {}
    /\ schemaRows' = <<>>
    /\ basicCalls' = 0
    /\ UNCHANGED <<world, cycle, building>>

\* a plausible slip: the mapping is taken from the predefined descriptions, kept
\* since startup, and the connection is not asked
GS_CommentsQuery_Predefined ==
    /\ pc = "gs_139"
    /\ commentsDict' = {ListedColumns[i] : i \in 1..Len(ListedColumns)}
    /\ pc' = "gs_156"
    /\ UNCHANGED <<gsFrame, logEvents, engineCalls, exc, ending, schemaRows, basicCalls>>

\* a plausible slip: no inner try, a failing comments query ends the full report
GS_CommentsQuery_Uncaught ==
    /\ pc = "gs_139"
    /\ engineCalls' = Append(engineCalls, CatalogCall(CommentsQuery))
    /\ \E a \in CommentsAnswers(catalog) :
        IF a.kind = "raises"
        THEN exc' = a.err /\ pc' = "gs_180" /\ UNCHANGED commentsDict
        ELSE commentsDict' = DictOf(a.rows) /\ pc' = "gs_156" /\ UNCHANGED exc
    /\ UNCHANGED <<gsFrame, logEvents, ending, schemaRows, basicCalls>>

\* lines 133-143: the comments query; its failure leaves an empty mapping
GS_CommentsQuery ==
    /\ pc = "gs_139"
    /\ engineCalls' = Append(engineCalls, CatalogCall(CommentsQuery))
    /\ \E a \in CommentsAnswers(catalog) :
        commentsDict' = IF a.kind = "raises" THEN {} ELSE DictOf(a.rows)
    /\ pc' = "gs_156"
    /\ UNCHANGED <<gsFrame, logEvents, exc, ending, schemaRows, basicCalls>>

\* lines 146-156: the columns query
GS_ColumnsQuery ==
    /\ pc = "gs_156"
    /\ engineCalls' = Append(engineCalls, CatalogCall(SchemaQuery))
    /\ \E a \in ColumnsAnswers(catalog) :
        IF a.kind = "raises"
        THEN exc' = a.err /\ pc' = "gs_180" /\ UNCHANGED schemaRows
        ELSE schemaRows' = a.rows /\ pc' = "gs_157" /\ UNCHANGED exc
    /\ UNCHANGED <<gsFrame, logEvents, ending, commentsDict, basicCalls>>

\* a plausible slip: the basic renderer runs even when the columns query had rows
GS_Report_Basic ==
    /\ pc = "gs_157"
    /\ schemaRows # <<>>
    /\ basicCalls' = basicCalls + 1
    /\ pc' = "bs_198"
    /\ UNCHANGED <<gsFrame, logEvents, engineCalls, exc, ending, commentsDict, schemaRows>>

\* lines 157-174: if result: the full report
GS_Report ==
    /\ pc = "gs_157"
    /\ schemaRows # <<>>
    /\ Return(FullReport(schemaRows, commentsDict))
    /\ UNCHANGED <<gsFrame, logEvents, engineCalls, exc, reporting>>

\* lines 175-177: else: return self._get_basic_schema_info()
GS_NoRows ==
    /\ pc = "gs_157"
    /\ schemaRows = <<>>
    /\ basicCalls' = basicCalls + 1
    /\ pc' = "bs_198"
    /\ UNCHANGED <<gsFrame, logEvents, engineCalls, exc, ending, commentsDict, schemaRows>>

\* lines 179-181: except Exception: log, return self._get_basic_schema_info()
GS_Except ==
    /\ pc = "gs_180"
    /\ logEvents' =
        Append(logEvents, ErrorEvent(<<"Failed to get schema with comments: ">> \o exc.msg))
    /\ basicCalls' = basicCalls + 1
    /\ exc' = NoExc
    /\ pc' = "bs_198"
    /\ UNCHANGED <<gsFrame, engineCalls, ending, commentsDict, schemaRows>>

\* lines 190-198: the basic renderer's query
BS_Query ==
    /\ pc = "bs_198"
    /\ engineCalls' = Append(engineCalls, CatalogCall(SchemaQuery))
    /\ \E a \in ColumnsAnswers(catalog) :
        IF a.kind = "raises"
        THEN exc' = a.err /\ pc' = "bs_208" /\ UNCHANGED schemaRows
        ELSE schemaRows' = a.rows /\ pc' = "bs_199" /\ UNCHANGED exc
    /\ UNCHANGED <<gsFrame, logEvents, ending, commentsDict, basicCalls>>

\* lines 199-205: if result: the basic report
BS_Report ==
    /\ pc = "bs_199"
    /\ schemaRows # <<>>
    /\ Return(BasicReport(schemaRows))
    /\ UNCHANGED <<gsFrame, logEvents, engineCalls, exc, reporting>>

\* line 199 with no rows: the try block ends without a return statement
BS_FallOff ==
    /\ pc = "bs_199"
    /\ schemaRows = <<>>
    /\ Return(None)
    /\ UNCHANGED <<gsFrame, logEvents, engineCalls, exc, reporting>>

\* lines 207-209
BS_Except ==
    /\ pc = "bs_208"
    /\ logEvents' = Append(logEvents, ErrorEvent(<<"Failed to get basic schema: ">> \o exc.msg))
    /\ exc' = NoExc
    /\ Return(OneLine(<<BasicFailureText>>))
    /\ UNCHANGED <<gsFrame, engineCalls, reporting>>

\* between two calls, or between the columns query and the basic renderer's query,
\* another user of the connection creates the table or adds column comments
CatalogChanges ==
    /\ pc \in {"idle", "gs_157"}
    /\ catalog' \in SchemaCatalogs
    /\ \/ ~catalog.table /\ catalog'.table
       \/ /\ catalog.table
          /\ catalog'.cols = catalog.cols
          /\ catalog.comments \subseteq catalog'.comments
          /\ catalog.comments # catalog'.comments
    /\ UNCHANGED <<request, locals, calls, pc, exc, ending, dataFile, runtime,
                   conn, closeCalls, cycle, building, reporting>>

----------------------------------------------------------------------------
(* server.get_schema and server.get_table_schema *)

\* f"Error retrieving schema: {e}"
SchemaErrorText(e) == OneLine(<<"Error retrieving schema: ">> \o e.msg)

CallGetSchema ==
    /\ Start("get_schema", "sc_134")
    /\ commentsDict' = {}
    /\ schemaRows' = <<>>
    /\ basicCalls' = 0
    /\ UNCHANGED <<world, cycle, building>>

\* lines 134-137: the context lookup, then get_schema_info
SC_GetContext ==
    /\ pc = "sc_134"
    /\ \E found \in BOOLEAN :
        IF found
        THEN pc' = "gs_139" /\ UNCHANGED exc
        ELSE exc' = ContextLookupError /\ pc' = "sc_139"
    /\ UNCHANGED <<gsFrame, logEvents, engineCalls, ending, reporting>>

\* lines 138-140
SC_Except ==
    /\ pc = "sc_139"
    /\ logEvents' = Append(logEvents, ErrorEvent(<<"Failed to get schema: ">> \o exc.msg))
    /\ Return(SchemaErrorText(exc))
    /\ UNCHANGED <<gsFrame, engineCalls, exc, reporting>>

CallGetTableSchema(c) ==
    /\ StartCtx("get_table_schema", c, "ts_153")
    /\ commentsDict' = {}
    /\ schemaRows' = <<>>
    /\ basicCalls' = 0
    /\ UNCHANGED <<world, cycle, building>>

tsFrame == <<request, locals, validated, world, cycle, building, reporting>>

\* lines 153-154: if ctx: await ctx.info(...)
TS_NotifyRetrieving ==
    /\ pc = "ts_153"
    /\ IF hasCtx
       THEN \E delivered \in BOOLEAN :
            IF delivered
            THEN /\ clientEvents' =
                     Append(clientEvents,
                            Notice("info", <<"Retrieving table schema information">>))
                 /\ pc' = "ts_156"
                 /\ UNCHANGED exc
            ELSE exc' = CtxError /\ pc' = "ts_162" /\ UNCHANGED clientEvents
       ELSE pc' = "ts_156" /\ UNCHANGED <<exc, clientEvents>>
    /\ UNCHANGED <<tsFrame, logEvents, engineCalls, ending>>

\* lines 156-160: the context lookup, then get_schema_info
TS_GetContext ==
    /\ pc = "ts_156"
    /\ \E found \in BOOLEAN :
        IF found
        THEN pc' = "gs_139" /\ UNCHANGED exc
        ELSE exc' = ContextLookupError /\ pc' = "ts_162"
    /\ UNCHANGED <<tsFrame, logEvents, engineCalls, clientEvents, ending>>

\* lines 161-162
TS_LogFailure ==
    /\ pc = "ts_162"
    /\ logEvents' =
        Append(logEvents, ErrorEvent(<<"Failed to get schema via tool: ">> \o exc.msg))
    /\ pc' = "ts_163"
    /\ UNCHANGED <<tsFrame, engineCalls, clientEvents, exc, ending>>

\* lines 163-164: if ctx: await ctx.error(...), inside the except clause
TS_NotifyFailed ==
    /\ pc = "ts_163"
    /\ IF hasCtx
       THEN CtxErrorCall(Notice("error", <<"Schema retrieval failed: ">> \o exc.msg), "ts_166")
       ELSE pc' = "ts_166" /\ UNCHANGED <<exc, clientEvents, ending>>
    /\ UNCHANGED <<tsFrame, logEvents, engineCalls>>

\* line 166
TS_ReturnError ==
    /\ pc = "ts_166"
    /\ Return(SchemaErrorText(exc))
    /\ UNCHANGED <<tsFrame, logEvents, engineCalls, clientEvents, exc>>

----------------------------------------------------------------------------
(* server.app_lifespan *)

LogLine(level, pieces) == [level |-> level, msg |-> pieces]

ConnectError == Raise("IOException", <<"Could not initialize the in-memory database">>)

\* what can end the serving phase at the yield, other than a normal shutdown
ServingErrors ==
    {Raise("RuntimeError", <<"transport failed">>), Raise("CancelledError", <<>>)}

\* `except Exception` does not catch a cancellation
IsException(e) == e.type # "CancelledError"

\* what no step of app_lifespan outside the constructor touches
lsFrame ==
    <<request, locals, calls, pc, exc, ending, dataFile, runtime, catalog,
      building, reporting>>

\* lines 27-30
LS_Enter ==
    /\ lifespan = "ls_27"
    /\ lifespanLog' = Append(lifespanLog, LogLine("INFO", <<"Initializing database connection">>))
    /\ lifespan' = "ls_31"
    /\ UNCHANGED <<lsFrame, conn, closeCalls, lsExc, served>>

\* line 31: db = duckdb.connect(database=":memory:", read_only=False)
LS_Connect ==
    /\ lifespan = "ls_31"
    /\ \/ conn' = "open" /\ lifespan' = "ls_34_call" /\ UNCHANGED lsExc
       \/ lsExc' = ConnectError /\ lifespan' = "ls_39" /\ UNCHANGED conn
    /\ UNCHANGED <<lsFrame, closeCalls, lifespanLog, served>>

\* line 34: context = AppContext(db=db, data_dir=data_dir)
LS_Construct ==
    /\ lifespan = "ls_34_call"
    /\ Start("AppContext", "ac_31")
    /\ lifespan' = "ls_34"
    /\ constructions' = constructions + 1
    /\ stmts' = <<>>
    /\ colIdx' = 0
    /\ UNCHANGED <<world, lifespanLog, lsExc, served, reporting>>

\* lines 35-36: the context is yielded, the server starts handling requests
LS_Yield ==
    /\ lifespan = "ls_35"
    /\ lifespanLog' =
        Append(lifespanLog, LogLine("INFO", <<"Application context created successfully">>))
    /\ served' = TRUE
    /\ lifespan' = "serving"
    /\ UNCHANGED <<lsFrame, conn, closeCalls, lsExc>>

\* line 36: the generator is resumed normally, at shutdown
LS_Shutdown ==
    /\ lifespan = "serving"
    /\ pc = "idle"
    /\ lifespan' = "ls_43"
    /\ UNCHANGED <<lsFrame, conn, closeCalls, lifespanLog, lsExc, served>>

\* line 36: an exception is thrown into the generator at the yield
LS_ServingFails ==
    /\ lifespan = "serving"
    /\ pc = "idle"
    /\ \E e \in ServingErrors :
        /\ lsExc' = e
        /\ lifespan' = IF IsException(e) THEN "ls_39" ELSE "ls_43"
    /\ UNCHANGED <<lsFrame, conn, closeCalls, lifespanLog, served>>

\* lines 38-40: log and re-raise; the finally clause runs next
LS_Except ==
    /\ lifespan = "ls_39"
    /\ lifespanLog' =
        Append(lifespanLog,
               LogLine("ERROR", <<"Failed to initialize application: ">> \o lsExc.msg))
    /\ lifespan' = "ls_43"
    /\ UNCHANGED <<lsFrame, conn, closeCalls, lsExc, served>>

\* a plausible slip: the close placed after the yield, not in a finally clause
LS_Finally_AfterYield ==
    /\ lifespan = "ls_43"
    /\ IF served /\ lsExc = NoExc
       THEN /\ lifespanLog' =
                Append(lifespanLog, LogLine("INFO", <<"Closing database connection">>))
            /\ conn' = "closed"
            /\ closeCalls' = closeCalls + 1
       ELSE UNCHANGED <<lifespanLog, conn, closeCalls>>
    /\ lifespan' = "ls_46"
    /\ UNCHANGED <<lsFrame, lsExc, served>>

\* lines 41-45: if db: log, db.close()
LS_Finally ==
    /\ lifespan = "ls_43"
    /\ IF conn # "none"
       THEN /\ lifespanLog' =
                Append(lifespanLog, LogLine("INFO", <<"Closing database connection">>))
            /\ conn' = "closed"
            /\ closeCalls' = closeCalls + 1
       ELSE UNCHANGED <<lifespanLog, conn, closeCalls>>
    /\ lifespan' = "ls_46"
    /\ UNCHANGED <<lsFrame, lsExc, served>>

\* line 46; the exception in flight, if any, leaves the lifespan
LS_Complete ==
    /\ lifespan = "ls_46"
    /\ lifespanLog' = Append(lifespanLog, LogLine("INFO", <<"Application shutdown complete">>))
    /\ lifespan' = "exited"
    /\ UNCHANGED <<lsFrame, conn, closeCalls, lsExc, served>>

\* a request handler runs a query on the yielded context
LS_Request ==
    /\ lifespan = "serving"
    /\ \E s \in {Ex_Borough, Q_Select1} : CallExecuteQuery(s, ParamsNone)

----------------------------------------------------------------------------
(* Specifications *)

\* the gateway: calls of query_data and of execute_query, one at a time
Next ==
    \/ \E s \in Catalogue, c \in BOOLEAN : CallQueryData(s, c)
    \/ \E s \in Catalogue, p \in ParamChoices : CallExecuteQuery(s, p)
    \/ EQ_LogStart
    \/ EQ_Execute
    \/ EQ_Fetchall
    \/ EQ_Columns
    \/ EQ_Convert
    \/ EQ_LogSuccess
    \/ EQ_Return
    \/ EQ_LogFailure
    \/ EQ_Raise
    \/ QD_EmptyGuard
    \/ QD_NotifyProcessing
    \/ QD_GetContext
    \/ QD_Validate
    \/ QD_NotifyValidated
    \/ QD_ProgressValidated
    \/ QD_CallExecute
    \/ QD_ProgressExecuted
    \/ QD_NotifyCompleted
    \/ QD_ProgressReady
    \/ QD_Return
    \/ QD_NotifyFailed
    \/ QD_Reraise
    \/ QD_LogUnexpected
    \/ QD_NotifyUnexpected
    \/ QD_RaiseUnexpected
    \/ Collect

Spec == Init /\ [][Next]_vars

\* the validator applied to every bounded text
NextValidate ==
    \/ \E s \in BoundedTexts : CallValidate(s)
    \/ DoValidate
    \/ Collect

SpecValidate == Init /\ [][NextValidate]_vars

\* an open connection with an empty catalog, any data file, any engine
InitContext ==
    /\ entry = "none"
    /\ sql = <<>>
    /\ params = ParamsNone
    /\ hasCtx = FALSE
    /\ pc = "idle"
    /\ validated = "no"
    /\ logEvents = <<>>
    /\ engineCalls = <<>>
    /\ clientEvents = <<>>
    /\ cursor = NoCursor
    /\ rows = <<>>
    /\ columns = <<>>
    /\ resultDicts = <<>>
    /\ elapsed = 0
    /\ exc = NoExc
    /\ outcome = "pending"
    /\ returned = <<>>
    /\ dataFile \in DataFiles
    /\ commentsSupported \in BOOLEAN
    /\ catalog = EmptyCatalog
    /\ conn = "open"
    /\ closeCalls = 0
    /\ stmts = <<>>
    /\ lifespan = "off"
    /\ lifespanLog = <<>>
    /\ lsExc = NoExc
    /\ served = FALSE
    /\ colIdx = 0
    /\ constructions = 0
    /\ commentsDict = {}
    /\ schemaRows = <<>>
    /\ basicCalls = 0
    /\ config = default_config
    /\ loggers = [n \in LoggerNames |-> NewLogger]
    /\ setupCalls = 0
    /\ tasks = [t \in 1..MaxTasks |-> IdleTask]
    /\ running = 0
    /\ stmtOpen = {}
    /\ wire = <<>>

\* AppContext built, possibly several times, on one connection
NextContext ==
    \/ CallAppContext
    \/ AC_FileExists
    \/ AC_CreateTable
    \/ AC_CommentTable
    \/ AC_CommentColumn
    \/ AC_LoopDone
    \/ AC_Raise
    \/ FileChanges
    \/ Collect

SpecContext == InitContext /\ [][NextContext]_vars

\* the server process starts: no connection yet, any data file, any engine
InitLifespan ==
    /\ entry = "none"
    /\ sql = <<>>
    /\ params = ParamsNone
    /\ hasCtx = FALSE
    /\ pc = "idle"
    /\ validated = "no"
    /\ logEvents = <<>>
    /\ engineCalls = <<>>
    /\ clientEvents = <<>>
    /\ cursor = NoCursor
    /\ rows = <<>>
    /\ columns = <<>>
    /\ resultDicts = <<>>
    /\ elapsed = 0
    /\ exc = NoExc
    /\ outcome = "pending"
    /\ returned = <<>>
    /\ dataFile \in DataFiles
    /\ commentsSupported \in BOOLEAN
    /\ catalog = EmptyCatalog
    /\ conn = "none"
    /\ closeCalls = 0
    /\ stmts = <<>>
    /\ lifespan = "ls_27"
    /\ lifespanLog = <<>>
    /\ lsExc = NoExc
    /\ served = FALSE
    /\ colIdx = 0
    /\ constructions = 0
    /\ commentsDict = {}
    /\ schemaRows = <<>>
    /\ basicCalls = 0
    /\ config = default_config
    /\ loggers = [n \in LoggerNames |-> NewLogger]
    /\ setupCalls = 0
    /\ tasks = [t \in 1..MaxTasks |-> IdleTask]
    /\ running = 0
    /\ stmtOpen = {}
    /\ wire = <<>>

\* one run of the server: start-up, requests, shutdown
NextLifespan ==
    \/ LS_Enter
    \/ LS_Connect
    \/ LS_Construct
    \/ AC_FileExists
    \/ AC_CreateTable
    \/ AC_CommentTable
    \/ AC_CommentColumn
    \/ AC_LoopDone
    \/ AC_Raise
    \/ LS_Yield
    \/ LS_Request
    \/ EQ_LogStart
    \/ EQ_Execute
    \/ EQ_Fetchall
    \/ EQ_Columns
    \/ EQ_Convert
    \/ EQ_LogSuccess
    \/ EQ_Return
    \/ EQ_LogFailure
    \/ EQ_Raise
    \/ Collect
    \/ LS_Shutdown
    \/ LS_ServingFails
    \/ LS_Except
    \/ LS_Finally
    \/ LS_Complete

SpecLifespan == InitLifespan /\ [][NextLifespan]_vars

\* a DatabaseManager on an open connection whose catalog is in any state
InitSchema ==
    /\ entry = "none"
    /\ sql = <<>>
    /\ params = ParamsNone
    /\ hasCtx = FALSE
    /\ pc = "idle"
    /\ validated = "no"
    /\ logEvents = <<>>
    /\ engineCalls = <<>>
    /\ clientEvents = <<>>
    /\ cursor = NoCursor
    /\ rows = <<>>
    /\ columns = <<>>
    /\ resultDicts = <<>>
    /\ elapsed = 0
    /\ exc = NoExc
    /\ outcome = "pending"
    /\ returned = <<>>
    /\ dataFile = [state |-> "ok", version |-> 1, cols |-> ListedNames]
    /\ commentsSupported = TRUE
    /\ catalog \in SchemaCatalogs
    /\ conn = "open"
    /\ closeCalls = 0
    /\ stmts = <<>>
    /\ lifespan = "off"
    /\ lifespanLog = <<>>
    /\ lsExc = NoExc
    /\ served = FALSE
    /\ colIdx = 0
    /\ constructions = 0
    /\ commentsDict = {}
    /\ schemaRows = <<>>
    /\ basicCalls = 0
    /\ config = default_config
    /\ loggers = [n \in LoggerNames |-> NewLogger]
    /\ setupCalls = 0
    /\ tasks = [t \in 1..MaxTasks |-> IdleTask]
    /\ running = 0
    /\ stmtOpen = {}
    /\ wire = <<>>

\* the schema report, called directly, as a resource and as a tool
NextSchema ==
    \/ CallGetSchemaInfo
    \/ CallGetSchema
    \/ \E c \in BOOLEAN : CallGetTableSchema(c)
    \/ GS_CommentsQuery
    \/ GS_ColumnsQuery
    \/ GS_Report
    \/ GS_NoRows
    \/ GS_Except
    \/ BS_Query
    \/ BS_Report
    \/ BS_FallOff
    \/ BS_Except
    \/ SC_GetContext
    \/ SC_Except
    \/ TS_NotifyRetrieving
    \/ TS_GetContext
    \/ TS_LogFailure
    \/ TS_NotifyFailed
    \/ TS_ReturnError
    \/ CatalogChanges
    \/ Collect

SpecSchema == InitSchema /\ [][NextSchema]_vars

\* the texts sent to a server whose context is ready
ReadyTexts == {Q_Select1, Q_Drop, Q_LowerPadded, Q_CopyFrom, Q_Len100, Q_Len101, Ex_CountByType}

\* the three operations of the server on a ready context; with the table loaded the
\* columns query has rows whenever it answers
NextReady ==
    \/ \E s \in ReadyTexts, c \in BOOLEAN : CallQueryData(s, c)
    \/ CallGetSchema
    \/ \E c \in BOOLEAN : CallGetTableSchema(c)
    \/ QD_EmptyGuard
    \/ QD_NotifyProcessing
    \/ QD_GetContext
    \/ QD_Validate
    \/ QD_NotifyValidated
    \/ QD_ProgressValidated
    \/ QD_CallExecute
    \/ QD_ProgressExecuted
    \/ QD_NotifyCompleted
    \/ QD_ProgressReady
    \/ QD_Return
    \/ QD_NotifyFailed
    \/ QD_Reraise
    \/ QD_LogUnexpected
    \/ QD_NotifyUnexpected
    \/ QD_RaiseUnexpected
    \/ EQ_LogStart
    \/ EQ_Execute
    \/ EQ_Fetchall
    \/ EQ_Columns
    \/ EQ_Convert
    \/ EQ_LogSuccess
    \/ EQ_Return
    \/ EQ_LogFailure
    \/ EQ_Raise
    \/ GS_CommentsQuery
    \/ GS_ColumnsQuery
    \/ GS_Report
    \/ GS_Except
    \/ BS_Query
    \/ BS_Report
    \/ BS_Except
    \/ SC_GetContext
    \/ SC_Except
    \/ TS_NotifyRetrieving
    \/ TS_GetContext
    \/ TS_LogFailure
    \/ TS_NotifyFailed
    \/ TS_ReturnError
    \/ Collect

SpecReady == Init /\ [][NextReady]_vars

----------------------------------------------------------------------------
(* The validator's contract, stated without reference to its code *)

ForbiddenWords ==
    {"DROP", "DELETE", "UPDATE", "INSERT", "ALTER", "CREATE", "TRUNCATE", "EXEC",
     "EXECUTE", "PRAGMA"}

\* T: the upper-cased trimmed text
Trimmed(s) == Upper(Strip(s))

HasForbidden(t) == \E w \in ForbiddenWords : Contains(t, KW[w])

Accepted(s) ==
    LET t == Trimmed(s)
    IN  /\ t # <<>>
        /\ ~HasForbidden(t)
        /\ StartsWith(t, T_SELECT)
        /\ ~(Contains(t, T_SELECT_STAR) /\ ~Contains(t, T_LIMIT))

\* the message of the first failing rule, in the order empty, forbidden keyword,
\* not-SELECT, SELECT * without LIMIT
FirstFailingRule(s) ==
    LET t == Trimmed(s)
    IN  IF t = <<>> THEN MsgEmpty
        ELSE IF HasForbidden(t) THEN MsgForbidden
        ELSE IF ~StartsWith(t, T_SELECT) THEN MsgOnlySelect
        ELSE MsgStarLimit

ValidateDone == entry = "validate" /\ pc = "done"

RaisedValidationError(rule) ==
    /\ outcome = "raised"
    /\ exc.type = "ValidationError"
    /\ exc.msg[1] = rule

----------------------------------------------------------------------------
(* Claims *)

\* C1: in every query_data request the engine is called only with the caller's own
\* text and only after validate_sql_query returned normally for it; when validation
\* raised, or the text is empty or whitespace, the request calls neither the engine nor
\* the logger.
Thm_C1 ==
    entry = "query_data" =>
        /\ engineCalls # <<>> =>
              /\ validated = "passed"
              /\ Accepted(sql)
              /\ \A i \in 1..Len(engineCalls) : engineCalls[i].text = sql
        /\ (validated = "rejected" \/ IsBlank(sql)) =>
              /\ engineCalls = <<>>
              /\ logEvents = <<>>

\* a request with a client context whose text failed validation has ended
Wit_C1 ==
    /\ entry = "query_data"
    /\ pc = "done"
    /\ validated = "rejected"
    /\ hasCtx
    /\ clientEvents # <<>>
    /\ outcome = "raised"

\* C2: validate_sql_query returns normally exactly for the accepted texts, and otherwise
\* raises ValidationError with the reason of the first failing rule.
Thm_C2 ==
    ValidateDone =>
        /\ outcome = "returned" <=> Accepted(sql)
        /\ outcome # "returned" => RaisedValidationError(FirstFailingRule(sql))

\* a padded lower-case SELECT was accepted
Wit_C2 == ValidateDone /\ sql = Q_LowerPadded /\ outcome = "returned"

\* C3 as stated: every text that is non-empty after trimming and does not start with
\* SELECT is rejected with the 'Only SELECT queries are allowed' reason.
CE_C3 ==
    (ValidateDone /\ Trimmed(sql) # <<>> /\ ~StartsWith(Trimmed(sql), T_SELECT)) =>
        RaisedValidationError(MsgOnlySelect)

\* C3 (amended): every text that is non-empty after trimming and does not start with
\* SELECT is rejected: with the forbidden-keyword reason when it contains a forbidden
\* keyword, and with the 'Only SELECT queries are allowed' reason otherwise.
Thm_C3 ==
    (ValidateDone /\ Trimmed(sql) # <<>> /\ ~StartsWith(Trimmed(sql), T_SELECT)) =>
        IF HasForbidden(Trimmed(sql))
        THEN RaisedValidationError(MsgForbidden)
        ELSE RaisedValidationError(MsgOnlySelect)

\* SHOW TABLES was rejected as not a SELECT
Wit_C3 == ValidateDone /\ sql = Q_ShowTables /\ RaisedValidationError(MsgOnlySelect)

\* C4: every text that contains a forbidden keyword as a case-insensitive substring is
\* rejected with a forbidden-keyword reason, wherever the keyword occurs.
Thm_C4 ==
    (ValidateDone /\ HasForbidden(Upper(sql))) =>
        /\ RaisedValidationError(MsgForbidden)
        /\ exc.msg[2] \in ForbiddenWords
        /\ Contains(Upper(sql), KW[exc.msg[2]])

\* a keyword after a comment marker, in a string literal and inside an identifier
Wit_C4 ==
    /\ ValidateDone
    /\ sql \in {Q_Comment, Q_Literal, Ex_Recent}
    /\ RaisedValidationError(MsgForbidden)

\* the example queries of the query_data tool description (server.py, lines 65-67)
DocExamples == {Ex_CountByType, Ex_Recent, Ex_Borough}

\* C5: each example query of the query_data tool description passes validation when it
\* is submitted through query_data (and so goes on to the engine).
CE_C5 ==
    (entry = "query_data" /\ sql \in DocExamples /\ validated # "no") =>
        validated = "passed"

----------------------------------------------------------------------------
(* execute_query seen from outside: what the engine answered, what came back *)

\* execute_query has finished, called on its own or from query_data
ExecuteReturned ==
    \/ entry = "execute_query" /\ pc = "done" /\ outcome = "returned"
    \/ entry = "query_data" /\ pc = "qd_105"

ExecuteRaised ==
    \/ entry = "execute_query" /\ pc = "done" /\ outcome = "raised"
    \/ entry = "query_data" /\ pc = "qd_114" /\ validated = "passed"

\* the column names the engine declared, in order
Declared == [i \in 1..Len(cursor.description) |-> cursor.description[i].name]

\* the position of the last column named n
LastColumn(n) ==
    CHOOSE k \in 1..Len(Declared) :
        Declared[k] = n /\ \A j \in 1..Len(Declared) : Declared[j] = n => j <= k

\* C6: on success execute_query returns one Row per fetched row, in the engine's order,
\* each mapping exactly the declared column names to the row's values by position, a
\* repeated name keeping the value of its last column; the engine's answer to
\* SELECT 1 AS x comes back as exactly [{x: 1}].
Thm_C6 ==
    ExecuteReturned =>
        /\ Len(resultDicts) = Len(cursor.rows)
        /\ \A i \in 1..Len(resultDicts) :
              /\ DOMAIN resultDicts[i] = {Declared[k] : k \in 1..Len(Declared)}
              /\ \A n \in DOMAIN resultDicts[i] :
                    resultDicts[i][n] = cursor.rows[i][LastColumn(n)]
        /\ (cursor.rows = <<(<<1>>)>> /\ Declared = <<"x">>) =>
              resultDicts = <<[n \in {"x"} |-> 1]>>
        /\ (entry = "execute_query") => returned = <<resultDicts>>

\* a result declaring the name x twice came back with the later value
Wit_C6 ==
    /\ entry = "execute_query"
    /\ pc = "done"
    /\ outcome = "returned"
    /\ Declared = <<"x", "x">>
    /\ cursor.rows = <<(<<1, 2>>), (<<2, 1>>)>>
    /\ returned = <<(<<[n \in {"x"} |-> 2], [n \in {"x"} |-> 1]>>)>>

\* the engine's answer makes a step of execute_query raise
StepRaises ==
    \/ cursor.kind \in {"execute_raises", "fetchall_raises"}
    \/ cursor.kind = "rows" /\ ~cursor.hasDescription
    \/ cursor.kind = "rows" /\ \E i \in 1..Len(cursor.rows) :
                                   Len(cursor.rows[i]) # Len(cursor.description)

\* the type of the exception the failing step raises
StepErrorTypes ==
    IF cursor.kind \in {"execute_raises", "fetchall_raises"} THEN {cursor.err.type}
    ELSE IF ~cursor.hasDescription THEN {"TypeError"}
    ELSE {"ValueError"}

\* C7: when a step of execute_query raises, execute_query returns nothing and raises
\* DatabaseError whose message is 'Query execution failed: ' followed by the original
\* message and whose cause is the original exception; no call both returns and raises.
Thm_C7 ==
    /\ (entry = "execute_query" /\ pc = "done" /\ StepRaises) =>
          /\ outcome = "raised"
          /\ returned = <<>>
          /\ exc.type = "DatabaseError"
          /\ Len(exc.cause) = 1
          /\ exc.cause[1].type \in StepErrorTypes
          /\ cursor.kind # "rows" => exc.cause[1] = cursor.err
          /\ exc.msg = <<"Query execution failed: ">> \o exc.cause[1].msg
    /\ (entry = "execute_query" /\ pc = "done" /\ ~StepRaises) =>
          outcome = "returned" /\ exc = NoExc
    /\ (entry = "execute_query" /\ outcome = "raised") => returned = <<>>
    /\ (entry = "execute_query" /\ returned # <<>>) => outcome = "returned" /\ exc = NoExc

\* rows were fetched, their conversion raised, and the call ended with the error alone
Wit_C7 ==
    /\ entry = "execute_query"
    /\ pc = "done"
    /\ outcome = "raised"
    /\ rows # <<>>
    /\ exc.cause[1].type = "ValueError"
    /\ returned = <<>>

\* the messages of the events execute_query has logged so far
LoggedMessages == [i \in 1..Len(logEvents) |-> logEvents[i].message[1]]
LoggedLevels == [i \in 1..Len(logEvents) |-> logEvents[i].level]

\* C8: an execute_query call logs exactly two events: 'Executing query' (INFO), then
\* 'Query executed successfully' (INFO) when it returns or 'Database query failed'
\* (ERROR) when it raises, and the failure event precedes the DatabaseError.
Thm_C8 ==
    /\ ExecuteReturned =>
          /\ LoggedMessages = <<"Executing query", "Query executed successfully">>
          /\ LoggedLevels = <<"INFO", "INFO">>
    /\ ExecuteRaised =>
          /\ LoggedMessages = <<"Executing query", "Database query failed">>
          /\ LoggedLevels = <<"INFO", "ERROR">>
    /\ (entry = "execute_query" /\ exc.type = "DatabaseError") =>
          LoggedMessages = <<"Executing query", "Database query failed">>
    /\ (entry = "execute_query") =>
          LoggedMessages \in {<<>>, <<"Executing query">>,
                              <<"Executing query", "Query executed successfully">>,
                              <<"Executing query", "Database query failed">>}

\* a call whose fetch failed has raised after logging the start and the failure
Wit_C8 ==
    /\ entry = "execute_query"
    /\ pc = "done"
    /\ outcome = "raised"
    /\ cursor.kind = "fetchall_raises"
    /\ Len(logEvents) = 2

\* the event logged on the success path
SuccessLogged == ExecuteReturned /\ Len(logEvents) = 2

\* C9 as stated: the success event carries the query preview, the duration, the row
\* count and the column count.
CE_C9 ==
    SuccessLogged =>
        {"query_preview", "execution_time_ms", "row_count", "column_count"}
            \subseteq DOMAIN logEvents[2].extra

\* C9 (amended): the success event carries the row count, the duration in milliseconds
\* and the column count and nothing else; the query preview of a successful call is
\* carried by the start event logged before it.
Thm_C9 ==
    SuccessLogged =>
        /\ DOMAIN logEvents[2].extra = {"row_count", "execution_time_ms", "column_count"}
        /\ logEvents[2].extra.row_count = Len(cursor.rows)
        /\ logEvents[2].extra.column_count = Len(cursor.description)
        /\ logEvents[2].extra.execution_time_ms = elapsed
        /\ "query_preview" \in DOMAIN logEvents[1].extra
        /\ logEvents[1].extra.query_preview = QueryPreview(sql)

\* a successful call with two rows of one column, and a text longer than the preview
Wit_C9 ==
    /\ SuccessLogged
    /\ Len(sql) > PreviewLen
    /\ Len(cursor.rows) = 2
    /\ Len(cursor.description) = 1

\* C10: execute_query calls db.execute exactly once, with the caller's text unchanged:
\* with the params mapping as second argument when the mapping is non-empty, and with
\* the text alone when params is None or empty.
Thm_C10 ==
    (entry = "execute_query") =>
        /\ Len(engineCalls) <= 1
        /\ pc = "done" => Len(engineCalls) = 1
        /\ \A i \in 1..Len(engineCalls) :
              /\ engineCalls[i].text = sql
              /\ (~params.isNone /\ params.map # {}) =>
                    engineCalls[i].nargs = 2 /\ engineCalls[i].params = params.map
              /\ (params.isNone \/ params.map = {}) =>
                    engineCalls[i].nargs = 1 /\ engineCalls[i].params = {}

\* a call with an empty mapping has ended after executing the text alone
Wit_C10 ==
    /\ entry = "execute_query"
    /\ pc = "done"
    /\ params = ParamsEmpty
    /\ Len(engineCalls) = 1
    /\ engineCalls[1].nargs = 1

----------------------------------------------------------------------------
(* C14, C16, C18: the statements of AppContext construction *)

IsPrefix(s, t) == Len(s) <= Len(t) /\ SubSeq(t, 1, Len(s)) = s

\* the order the claim states
FullStatements ==
    <<StmtCreate, StmtCommentTable>>
        \o [i \in 1..Len(ListedColumns) |-> StmtCommentColumn(ListedColumns[i][1])]

ConstructionReturned == entry = "AppContext" /\ pc = "done" /\ outcome = "returned"

ConstructionRaised == entry = "AppContext" /\ pc = "done" /\ outcome = "raised"

\* C14: with the source file present, the statements issued by a construction are
\* at every moment a prefix of: create, one table comment, one column comment per
\* entry of the column list in list order; a construction that returns has issued
\* all of them.
Thm_C14 ==
    entry = "AppContext" =>
        /\ IsPrefix(stmts, FullStatements)
        /\ (ConstructionReturned /\ dataFile.state # "absent" => stmts = FullStatements)

Wit_C14 ==
    /\ ConstructionReturned
    /\ dataFile.state = "ok"
    /\ stmts = FullStatements
    /\ Len(stmts) = 2 + MaxColumns

\* the comments a catalog holds once every listed column it has is commented
AttachableComments(cat) ==
    {ListedColumns[i] : i \in {j \in 1..Len(ListedColumns) : ListedNames[j] \in Range(cat.cols)}}

\* how often column c was attempted
Attempts(c) == Cardinality({i \in 1..Len(stmts) : stmts[i] = StmtCommentColumn(c)})

\* C16: whichever column comments fail, the loop attempts every listed column
\* exactly once, every column the table has receives its comment, also after a
\* failed one, and a construction that reached the loop returns without raising.
Thm_C16 ==
    /\ entry = "AppContext" /\ pc = "ac_89" =>
        /\ exc = NoExc
        /\ Len(stmts) = 1 + colIdx
        /\ \A i \in 1..(colIdx - 1) :
            ListedNames[i] \in Range(catalog.cols) => ListedColumns[i] \in catalog.comments
    /\ entry = "AppContext" /\ pc = "done" /\ Len(stmts) > 2 =>
        /\ outcome = "returned"
        /\ \A i \in 1..Len(ListedNames) : Attempts(ListedNames[i]) = 1
        /\ AttachableComments(catalog) \subseteq catalog.comments

\* a listed column the table lacks, followed by one it has and that got its comment
Wit_C16 ==
    /\ ConstructionReturned
    /\ \E i, j \in 1..Len(ListedNames) :
        /\ i < j
        /\ ListedNames[i] \notin Range(catalog.cols)
        /\ ListedNames[j] \in Range(catalog.cols)
        /\ ListedColumns[j] \in catalog.comments
        /\ \A p \in catalog.comments : p[1] # ListedNames[i]

\* table, table comment and every attachable column comment are in place
Complete(cat) ==
    /\ cat.table
    /\ cat.tableComment = <<TableCommentText>>
    /\ cat.comments = AttachableComments(cat)

\* a step keeps an existing table, its rows and its columns
TableKept ==
    catalog.table =>
        catalog'.table /\ catalog'.rows = catalog.rows /\ catalog'.cols = catalog.cols

\* a step on a complete catalog changes nothing in it
NoOpWhenComplete == Complete(catalog) => catalog' = catalog

\* C18: a construction with the file present that returns leaves the catalog
\* complete; from then on every further construction keeps the table and the rows
\* of the first load and leaves the complete catalog as it is.
Thm_C18 ==
    /\ [](ConstructionReturned /\ stmts # <<>> => Complete(catalog))
    /\ [][TableKept /\ NoOpWhenComplete]_vars

\* a second construction returned after the file was replaced: the rows are still
\* those of the first file
Wit_C18 ==
    /\ ConstructionReturned
    /\ constructions = 2
    /\ stmts = FullStatements
    /\ dataFile.state = "ok"
    /\ dataFile.version = 2
    /\ catalog.rows = 1
    /\ Complete(catalog)

----------------------------------------------------------------------------
(* C13, C15, C17: the server lifespan and the start-up failures *)

\* no statement reaches the engine in this step
NoStatementIssued ==
    /\ Len(stmts') <= Len(stmts)
    /\ Len(engineCalls') <= Len(engineCalls)

\* C13: the lifespan closes the connection at most once, has closed it exactly
\* once when it exits with a connection that was opened, whichever way it exits,
\* never closes when duckdb.connect failed, and issues no statement after the close.
Thm_C13 ==
    /\ [](/\ closeCalls = (IF conn = "closed" THEN 1 ELSE 0)
          /\ (lifespan \in {"ls_46", "exited"} => conn \in {"none", "closed"})
          /\ (lsExc = ConnectError => conn = "none"))
    /\ [][conn = "closed" => NoStatementIssued /\ conn' = "closed"]_vars

\* the serving phase ended with an exception and the connection was closed once
Wit_C13 ==
    /\ lifespan = "exited"
    /\ served
    /\ lsExc.type = "RuntimeError"
    /\ conn = "closed"
    /\ closeCalls = 1

\* the query of a finished request names the table
QueriedTable ==
    /\ entry = "execute_query"
    /\ pc = "done"
    /\ Contains(Upper(sql), T_SERVICE_REQUESTS)

\* C15: with the source file absent the constructor issues no statement and does
\* not raise, so the lifespan goes on to serve; the table does not exist and a
\* query against service_requests ends in DatabaseError.
Thm_C15 ==
    dataFile.state = "absent" =>
        /\ stmts = <<>>
        /\ ~catalog.table
        /\ lsExc.type # "DatabaseError"
        /\ pc # "ac_96"
        /\ (lifespan = "ls_34" => pc = "ac_31")
        /\ (QueriedTable => outcome = "raised" /\ exc.type = "DatabaseError")

Wit_C15 ==
    /\ dataFile.state = "absent"
    /\ served
    /\ constructions = 1
    /\ QueriedTable
    /\ sql = Ex_Borough
    /\ outcome = "raised"
    /\ exc.type = "DatabaseError"

\* the start-up statement that cannot succeed in this environment, if any
CreateMustFail == dataFile.state = "corrupt"

TableCommentMustFail == dataFile.state = "ok" /\ ~commentsSupported

\* C17: when the create or the table comment fails, the constructor raises
\* DatabaseError "Failed to initialize tables: ..." with the engine's error as its
\* cause, the failed statement is the last one issued, and the lifespan never
\* yields the context.
Thm_C17 ==
    /\ CreateMustFail \/ TableCommentMustFail =>
        /\ ~served
        /\ lifespan \notin {"ls_35", "serving"}
        /\ IsPrefix(stmts, IF CreateMustFail THEN <<StmtCreate>>
                           ELSE <<StmtCreate, StmtCommentTable>>)
        /\ (lifespan \in {"ls_43", "ls_46", "exited"} /\ conn # "none"
                => lsExc.type = "DatabaseError")
    /\ pc = "ac_96" => stmts \in {<<StmtCreate>>, <<StmtCreate, StmtCommentTable>>}
    /\ lsExc.type = "DatabaseError" =>
        /\ lsExc.msg[1] = "Failed to initialize tables: "
        /\ lsExc.cause \in {<<IOError>>, <<ParserError>>}
        /\ lsExc.msg = <<"Failed to initialize tables: ">> \o lsExc.cause[1].msg
        /\ stmts = (IF lsExc.cause = <<IOError>> THEN <<StmtCreate>>
                    ELSE <<StmtCreate, StmtCommentTable>>)
        /\ ~served

\* the table comment failed after a successful create, and the lifespan has exited
Wit_C17 ==
    /\ lifespan = "exited"
    /\ lsExc.type = "DatabaseError"
    /\ lsExc.cause = <<ParserError>>
    /\ stmts = <<StmtCreate, StmtCommentTable>>
    /\ catalog.table
    /\ ~served

----------------------------------------------------------------------------
(* C11, C12, C20: the schema report and its two handlers *)

\* a returned value that is a string: Python's None is not one
IsString(v) == v # None

SchemaInfoDone == entry = "get_schema_info" /\ pc = "done"

\* C11: get_schema_info never raises and always returns a string, whatever the
\* comments query, the columns query and the basic renderer's query do.
CE_C11 ==
    SchemaInfoDone => outcome = "returned" /\ IsString(returned[1])

\* the report ended after its second statement, or went on to the basic renderer
ReportDone ==
    /\ entry \in {"get_schema_info", "get_schema", "get_table_schema"}
    /\ pc = "done"
    /\ engineCalls # <<>>

\* the step leaves the point where the columns query has answered
LeavesColumns == pc = "gs_157" /\ pc' # "gs_157"

\* C12: the columns query's rows give the full report without the basic renderer;
\* when it raises or returns no rows the basic renderer is invoked exactly once;
\* when the basic renderer's query raises, the fixed error string is returned.
Thm_C12 ==
    /\ [](/\ basicCalls <= 1
          /\ (ReportDone /\ basicCalls = 0 =>
                /\ Len(engineCalls) = 2
                /\ schemaRows # <<>>
                /\ returned = <<FullReport(schemaRows, commentsDict)>>)
          /\ (ReportDone /\ basicCalls = 1 => Len(engineCalls) = 3))
    /\ [][/\ LeavesColumns /\ schemaRows # <<>> =>
                /\ pc' = "done"
                /\ basicCalls' = 0
                /\ returned' = <<FullReport(schemaRows, commentsDict)>>
          /\ (LeavesColumns /\ schemaRows = <<>>) \/ pc = "gs_180" =>
                pc' = "bs_198" /\ basicCalls' = 1
          /\ pc = "bs_208" =>
                pc' = "done" /\ returned' = <<OneLine(<<BasicFailureText>>)>>]_vars

\* the columns query raised, the basic renderer was invoked once and its query
\* raised as well
Wit_C12 ==
    /\ ReportDone
    /\ basicCalls = 1
    /\ Len(logEvents) = 2
    /\ Len(engineCalls) = 3
    /\ returned = <<OneLine(<<BasicFailureText>>)>>

HandlerDone == entry \in {"get_schema", "get_table_schema"} /\ pc = "done"

\* the value is the error string of the handlers
IsSchemaErrorText(v) ==
    /\ v # None
    /\ Len(v) = 1
    /\ Len(v[1]) >= 1
    /\ v[1][1] = "Error retrieving schema: "

\* the value is what get_schema_info returns when it returns a string
IsReportString(v) ==
    \/ v = FullReport(schemaRows, commentsDict) /\ schemaRows # <<>>
    \/ v = BasicReport(schemaRows) /\ schemaRows # <<>>
    \/ v = OneLine(<<BasicFailureText>>)

\* C20: get_schema and get_table_schema never raise and return a string: the
\* report of get_schema_info, or a text beginning 'Error retrieving schema'.
CE_C20 ==
    HandlerDone =>
        /\ outcome = "returned"
        /\ IsString(returned[1])
        /\ IsSchemaErrorText(returned[1]) \/ IsReportString(returned[1])

----------------------------------------------------------------------------
(* C19: how a query_data request ends *)

\* C19: a query_data request ends by returning the rows or by raising
\* ValidationError or DatabaseError, nothing else.
CE_C19 ==
    entry = "query_data" /\ pc = "done" =>
        \/ outcome = "returned"
        \/ outcome = "raised" /\ exc.type \in {"ValidationError", "DatabaseError"}

----------------------------------------------------------------------------
(* C21: the loaded table under the server's three operations *)

\* the statements a schema report may issue
FixedCatalogSelects == {CatalogCall(CommentsQuery), CatalogCall(SchemaQuery)}

\* C21: on a ready context, whatever query_data, get_schema and get_table_schema
\* calls are made, service_requests exists with the rows of its load; every caller
\* text that reached the engine starts with SELECT and has no forbidden keyword, and
\* the schema operations issue only their fixed catalog SELECT statements.
CE_C21 ==
    /\ catalog.table
    /\ catalog.rows = ReadyCatalog.rows
    /\ entry = "query_data" =>
        \A i \in 1..Len(engineCalls) :
            /\ StartsWith(Trimmed(engineCalls[i].text), T_SELECT)
            /\ ~HasForbidden(Trimmed(engineCalls[i].text))
    /\ entry \in {"get_schema", "get_table_schema"} =>
        \A i \in 1..Len(engineCalls) : engineCalls[i] \in FixedCatalogSelects

----------------------------------------------------------------------------
(* Requests in flight on the event loop (server.py: the handlers are coroutines) *)

\* the steps one request takes between entry and return, in source order: "await"
\* is an awaited ctx call, "stmt" a db.execute made through DatabaseManager.
\* query_data: rows returned; rejected by the validator; execution failed; no ctx.
\* get_schema_info: comments and columns queries, then the basic query when the
\* columns query has no rows or raised.
Paths(op) ==
    CASE op = "query_data" ->
            {<<"await", "await", "await", "stmt", "await", "await", "await">>,
             <<"await", "await">>,
             <<"await", "await", "await", "stmt", "await">>,
             <<"stmt">>}
      [] op = "get_schema" ->
            {<<"stmt", "stmt">>, <<"stmt", "stmt", "stmt">>}
      [] op = "get_table_schema" ->
            {<<"await", "stmt", "stmt">>, <<"await", "stmt", "stmt", "stmt">>,
             <<"await", "stmt", "stmt", "await">>}

Operations == {"query_data", "get_schema", "get_table_schema"}

\* every step of a handler gives the loop's thread to other requests
Yields_InThread(kind) == kind \in {"await", "stmt"}

\* the step gives the loop's thread to other requests: an awaited call does, and
\* db.execute is an ordinary call that returns with its result
Yields(kind) == kind = "await"

concurrent == <<tasks, running, stmtOpen, wire>>
sequential ==
    <<request, pc, validated, logEvents, engineCalls, clientEvents, locals, exc, ending,
      dataFile, commentsSupported, config, loggers, setupCalls, catalog, conn, closeCalls,
      cycle, building, reporting>>

NextStep(t) ==
    IF tasks[t].at \in 1..Len(tasks[t].steps) THEN tasks[t].steps[tasks[t].at] ELSE "return"

\* a request arrives and its coroutine is scheduled
T_Arrive(t, op, p) ==
    /\ tasks[t].state = "idle"
    /\ tasks' = [tasks EXCEPT ![t] = [op |-> op, steps |-> p, at |-> 1, state |-> "ready"]]
    /\ UNCHANGED <<running, stmtOpen, wire, sequential>>

\* the loop runs a scheduled coroutine when its thread is free
T_Resume(t) ==
    /\ running = 0
    /\ tasks[t].state = "ready"
    /\ running' = t
    /\ tasks' = [tasks EXCEPT ![t].state = "running"]
    /\ UNCHANGED <<stmtOpen, wire, sequential>>

\* await ctx.info / ctx.debug / ctx.report_progress / ctx.error
T_Await(t) ==
    /\ running = t
    /\ tasks[t].state = "running"
    /\ NextStep(t) = "await"
    /\ tasks' = [tasks EXCEPT ![t].at = @ + 1,
                               ![t].state = IF Yields("await") THEN "ready" ELSE "running"]
    /\ running' = IF Yields("await") THEN 0 ELSE t
    /\ UNCHANGED <<stmtOpen, wire, sequential>>

\* self.db.execute(...) is entered: the statement is on the connection
T_StmtBegin(t) ==
    /\ running = t
    /\ tasks[t].state = "running"
    /\ NextStep(t) = "stmt"
    /\ stmtOpen' = stmtOpen \cup {t}
    /\ wire' = Append(wire, [task |-> t, op |-> tasks[t].op])
    /\ tasks' = [tasks EXCEPT ![t].state = "in_stmt"]
    /\ running' = IF Yields("stmt") THEN 0 ELSE t
    /\ UNCHANGED sequential

\* self.db.execute(...) returns or raises
T_StmtEnd(t) ==
    /\ tasks[t].state = "in_stmt"
    /\ running = IF Yields("stmt") THEN 0 ELSE t
    /\ stmtOpen' = stmtOpen \ {t}
    /\ tasks' = [tasks EXCEPT ![t].at = @ + 1, ![t].state = "running"]
    /\ running' = t
    /\ UNCHANGED <<wire, sequential>>

\* the handler returns or raises; its statements leave the record of those in flight
T_Finish(t) ==
    /\ running = t
    /\ tasks[t].state = "running"
    /\ NextStep(t) = "return"
    /\ tasks' = [tasks EXCEPT ![t] = IdleTask]
    /\ running' = 0
    /\ wire' = SelectSeq(wire, LAMBDA w : w.task # t)
    /\ UNCHANGED <<stmtOpen, sequential>>

NextConcurrent ==
    \/ \E t \in 1..MaxTasks, op \in Operations : \E p \in Paths(op) : T_Arrive(t, op, p)
    \/ \E t \in 1..MaxTasks : T_Resume(t)
    \/ \E t \in 1..MaxTasks : T_Await(t)
    \/ \E t \in 1..MaxTasks : T_StmtBegin(t)
    \/ \E t \in 1..MaxTasks : T_StmtEnd(t)
    \/ \E t \in 1..MaxTasks : T_Finish(t)

SpecConcurrent == Init /\ [][NextConcurrent]_vars

----------------------------------------------------------------------------
(* C22: one statement at a time on the shared connection *)

\* the statements of request t on the connection are next to each other
Contiguous(t) ==
    \A i, j, k \in 1..Len(wire) :
        i < j /\ j < k /\ wire[i].task = t /\ wire[k].task = t => wire[j].task = t

StatementsOf(t) == Len(SelectSeq(wire, LAMBDA w : w.task = t))

\* C22: with several requests in flight on the one connection, at most one engine
\* statement is in progress at any instant, and the statements of one schema report
\* are not interleaved with a statement of another request.
Thm_C22 ==
    /\ Cardinality(stmtOpen) <= 1
    /\ \A t \in 1..MaxTasks :
        tasks[t].op \in {"get_schema", "get_table_schema"} => Contiguous(t)

\* a schema report has issued its statements while another request, suspended at an
\* await, has one on the connection too, and a statement is in progress
Wit_C22 ==
    \E t, u \in 1..MaxTasks :
        /\ t # u
        /\ tasks[t].op = "get_table_schema"
        /\ StatementsOf(t) >= 2
        /\ tasks[u].op = "query_data"
        /\ tasks[u].state = "ready"
        /\ StatementsOf(u) = 1
        /\ stmtOpen = {t}

----------------------------------------------------------------------------
(* config.LoggerConfig.setup_logger *)

LogLevels == {"INFO", "DEBUG"}
LogFiles == {"mcp_server.log", "tmp.log"}

\* logging.FileHandler(log_file, mode="a") cannot open the file
LogFileError == Raise("OSError", <<"No such file or directory: ">>)

FileHandler(f, level) == [kind |-> "FileHandler", target |-> f, level |-> level]
StreamHandler(level) == [kind |-> "StreamHandler", target |-> "sys.stdout", level |-> level]

\* a plausible slip: the handlers are attached on every call
Configured_Never(logger) == FALSE

\* line 21: if logger.handlers
Configured(logger) == logger.handlers # <<>>

\* lines 17-43, one call; fileOk: the log file can be opened for appending
SetupLogger(name, log_file, level, fileOk) ==
    LET logger == [loggers[name] EXCEPT !.level = level]
    IN  /\ setupCalls < MaxSetupCalls
        /\ setupCalls' = setupCalls + 1
        /\ entry' = "setup_logger"
        /\ pc' = "done"
        /\ IF Configured(logger)
           THEN /\ loggers' = [loggers EXCEPT ![name] = logger]
                /\ outcome' = "returned" /\ returned' = <<name>> /\ exc' = NoExc
           ELSE IF ~fileOk
           THEN /\ loggers' = [loggers EXCEPT ![name] = logger]
                /\ outcome' = "raised" /\ returned' = <<>> /\ exc' = LogFileError
           ELSE /\ loggers' =
                    [loggers EXCEPT ![name] =
                        [logger EXCEPT
                            !.handlers = @ \o <<FileHandler(log_file, level), StreamHandler(level)>>,
                            !.propagate = FALSE]]
                /\ outcome' = "returned" /\ returned' = <<name>> /\ exc' = NoExc
        /\ UNCHANGED <<sql, params, hasCtx, validated, logEvents, engineCalls, clientEvents,
                       locals, dataFile, commentsSupported, config, concurrent, catalog, conn,
                       closeCalls, cycle, building, reporting>>

NextLogger ==
    \E n \in LoggerNames, f \in LogFiles, l \in LogLevels, ok \in BOOLEAN :
        SetupLogger(n, f, l, ok)

SpecLogger == Init /\ [][NextLogger]_vars

----------------------------------------------------------------------------
(* C23: the handlers of a logger after setup_logger calls *)

HandlerKinds(logger) == [i \in 1..Len(logger.handlers) |-> logger.handlers[i].kind]

\* the logger is as one completed configuration leaves it
TwoHandlers(logger) ==
    /\ HandlerKinds(logger) = <<"FileHandler", "StreamHandler">>
    /\ logger.propagate = FALSE

SetupReturned == entry = "setup_logger" /\ outcome = "returned"

\* C23: a setup_logger call on a name without handlers attaches exactly the file and
\* the console handler and sets propagate to False; further calls for the name add
\* no handler, so after any sequence of calls the logger a call returned has exactly
\* two handlers (a name whose only calls failed to open the log file has none).
Thm_C23 ==
    /\ [](\A n \in LoggerNames : loggers[n].handlers = <<>> \/ TwoHandlers(loggers[n]))
    /\ [](SetupReturned => TwoHandlers(loggers[returned[1]]))
    /\ [][\A n \in LoggerNames :
            loggers[n].handlers # <<>> => loggers'[n].handlers = loggers[n].handlers]_vars

\* three calls have returned the same logger, the later ones with another level and
\* file, and it has the two handlers of the first
Wit_C23 ==
    /\ SetupReturned
    /\ setupCalls >= 3
    /\ \A n \in LoggerNames \ {returned[1]} : loggers[n].handlers = <<>>
    /\ loggers[returned[1]].level = "DEBUG"
    /\ loggers[returned[1]].handlers = <<FileHandler("mcp_server.log", "INFO"), StreamHandler("INFO")>>

----------------------------------------------------------------------------
(* C24: the description segment of a column's line *)

\* the line of a column ends with " - <description>"
HasDescription(line) == Len(line) = 9 /\ line[8] = " - "

\* the mapping holds a non-empty comment for the column name
NonEmptyComment(d, name) == \E p \in d : p[1] = name /\ p[2] # ""

FullReportDone == ReportDone /\ basicCalls = 0

----------------------------------------------------------------------------
(* C25: the schema report is computed from the connection on every call *)

ColumnNames(rs) == [i \in 1..Len(rs) |-> rs[i][1]]

\* a schema call begins
SchemaCallBegins ==
    pc = "idle" /\ entry' \in {"get_schema_info", "get_schema", "get_table_schema"}

----------------------------------------------------------------------------
(* The validator under a changing configuration *)

\* the fields of default_config are assigned other values
ConfigChanges ==
    /\ config' \in Configs \ {config}
    /\ UNCHANGED <<request, pc, validated, logEvents, engineCalls, clientEvents, locals, exc,
                   ending, dataFile, commentsSupported, loggers, setupCalls, concurrent,
                   catalog, conn, closeCalls, cycle, building, reporting>>

ConfiguredTexts == Catalogue \cup {Q_Pragma}

NextConfigured ==
    \/ ConfigChanges
    \/ \E s \in ConfiguredTexts : CallValidate(s)
    \/ DoValidate
    \/ Collect

SpecConfigured == Init /\ [][NextConfigured]_vars

----------------------------------------------------------------------------
(* C26: validate_sql_query is a function of its text alone *)

\* C26: validate_sql_query never calls the engine or the logger and changes nothing;
\* whether it returns or raises, and with which reason, is settled by the sql string
\* alone, whatever ServerConfig's keyword tuples hold, and a text containing PRAGMA
\* is rejected although the configured tuple omits PRAGMA.
Thm_C26 ==
    /\ [](ValidateDone =>
            /\ engineCalls = <<>>
            /\ logEvents = <<>>
            /\ clientEvents = <<>>
            /\ outcome = "returned" <=> Accepted(sql)
            /\ outcome # "returned" => RaisedValidationError(FirstFailingRule(sql))
            /\ Contains(Trimmed(sql), KW.PRAGMA) => RaisedValidationError(MsgForbidden))
    /\ [][pc = "v_91" /\ pc' = "done" => UNCHANGED <<request, server>>]_vars

\* the configured tuple of forbidden keywords is empty and the SELECT over
\* pragma_table_info was rejected for PRAGMA
Wit_C26 ==
    /\ ValidateDone
    /\ config.forbidden_sql_keywords = <<>>
    /\ sql = Q_Pragma
    /\ exc = Raise("ValidationError", <<MsgForbidden, "PRAGMA">>)

----------------------------------------------------------------------------
(* C27: the query preview of execute_query's log events *)

\* p is q when q has at most 100 characters, else its first 100 characters and '...'
IsPreviewOf(p, q) ==
    IF Len(q) <= 100
    THEN p = q
    ELSE /\ Len(p) = 103
         /\ \A i \in 1..100 : p[i] = q[i]
         /\ \A i \in 101..103 : p[i] = "."

HasPreview(ev) == "query_preview" \in DOMAIN ev.extra

IsFailureEvent(ev) == ev.level = "ERROR" /\ ev.message = <<"Database query failed">>

\* C27: the query preview logged by execute_query is the whole query when it has at
\* most 100 characters and otherwise its first 100 characters followed by '...', so
\* it never has more than 103 characters, and the start event and the failure event
\* of a call carry the same preview.
Thm_C27 ==
    \A i \in 1..Len(logEvents) :
        /\ HasPreview(logEvents[i]) =>
            /\ IsPreviewOf(logEvents[i].extra.query_preview, sql)
            /\ Len(logEvents[i].extra.query_preview) <= 103
        /\ IsFailureEvent(logEvents[i]) =>
            /\ HasPreview(logEvents[i]) /\ HasPreview(logEvents[1])
            /\ logEvents[i].extra.query_preview = logEvents[1].extra.query_preview

\* the execution of a query of 101 characters failed: both events carry its first
\* 100 characters and the ellipsis
Wit_C27 ==
    /\ Len(sql) = 101
    /\ Len(logEvents) = 2
    /\ IsFailureEvent(logEvents[2])
    /\ Len(logEvents[2].extra.query_preview) = 103

----------------------------------------------------------------------------
(* C28: which keyword a forbidden-keyword rejection names *)

\* the order in which the claim lists the keywords
ListOrder ==
    <<"DROP", "DELETE", "UPDATE", "INSERT", "ALTER", "CREATE", "TRUNCATE", "EXEC",
      "EXECUTE", "PRAGMA">>

ListIndex(w) == CHOOSE i \in 1..Len(ListOrder) : ListOrder[i] = w

\* C28: the keyword a 'forbidden keyword' rejection names is the first entry of the
\* list order DROP, DELETE, UPDATE, INSERT, ALTER, CREATE, TRUNCATE, EXEC, EXECUTE,
\* PRAGMA that occurs in the text, wherever in the text it occurs; EXECUTE is never
\* the keyword named.
Thm_C28 ==
    ValidateDone /\ RaisedValidationError(MsgForbidden) =>
        /\ exc.msg[2] \in ForbiddenWords
        /\ Contains(Trimmed(sql), KW[exc.msg[2]])
        /\ \A j \in 1..(ListIndex(exc.msg[2]) - 1) : ~Contains(Trimmed(sql), KW[ListOrder[j]])
        /\ exc.msg[2] # "EXECUTE"

\* 'execDrop': EXEC stands first in the text, DROP first in the list, DROP is named
Wit_C28 ==
    /\ ValidateDone
    /\ sql = <<"e", "x", "e", "c", "D", "r", "o", "p">>
    /\ exc = Raise("ValidationError", <<MsgForbidden, "DROP">>)

----------------------------------------------------------------------------
(* C29: what query_data sends to the engine *)

\* C29: every statement query_data sends to the engine is the caller's sql string
\* verbatim, executed without parameter binding: execute_query is called with
\* params absent, its start event reports no parameters, and db.execute receives
\* the text as its only argument.
Thm_C29 ==
    entry = "query_data" =>
        /\ params = ParamsNone
        /\ \A i \in 1..Len(engineCalls) :
            engineCalls[i] = [text |-> sql, nargs |-> 1, params |-> {}]
        /\ \A i \in 1..Len(logEvents) :
            "has_params" \in DOMAIN logEvents[i].extra =>
                /\ logEvents[i].extra.has_params = FALSE
                /\ logEvents[i].extra.param_count = 0

\* the padded lower-case SELECT reached the engine as the caller wrote it, neither
\* trimmed nor upper-cased, and the request returned
Wit_C29 ==
    /\ entry = "query_data"
    /\ pc = "done"
    /\ outcome = "returned"
    /\ sql = Q_LowerPadded
    /\ sql # SqlUpper(sql)
    /\ engineCalls = <<[text |-> Q_LowerPadded, nargs |-> 1, params |-> {}]>>

----------------------------------------------------------------------------
(* C30: progress reports and error notifications of one query_data request *)

\* the progress values delivered so far, in tenths
ProgressValues ==
    LET ps == SelectSeq(clientEvents, LAMBDA ev : ev.kind = "progress")
    IN  [i \in 1..Len(ps) |-> ps[i].progress]

\* ctx.error calls made so far: those delivered, and the one that raised out of the
\* handler
ErrorCalls ==
    Len(SelectSeq(clientEvents, LAMBDA ev : ev.kind = "error"))
        + (IF pc = "done" /\ exc = CtxError THEN 1 ELSE 0)

ExecutionReturned ==
    \E i \in 1..Len(logEvents) : logEvents[i].message = <<"Query executed successfully">>

ExecutionFailed == \E i \in 1..Len(logEvents) : IsFailureEvent(logEvents[i])

\* progress is reported in the order 0.3, 0.9, 1.0: 0.3 after validation passed, 0.9
\* and 1.0 after the execution returned
ProgressInOrder ==
    /\ \E n \in 0..3 : ProgressValues = SubSeq(<<3, 9, 10>>, 1, n)
    /\ ProgressValues # <<>> => validated = "passed"
    /\ Len(ProgressValues) >= 2 => ExecutionReturned

RequestWithContext == entry = "query_data" /\ hasCtx

\* the request ended because validate_sql_query or the execution raised
FailedInside == pc = "done" /\ (validated = "rejected" \/ ExecutionFailed)

\* the request ended at the guard for a blank text
FailedAtGuard == pc = "done" /\ IsBlank(sql)

\* C30 as stated: progress is reported in order, and every request that fails
\* validation or execution, a blank text included, reports no progress of 0.9 or
\* more and emits exactly one error notification.
CE_C30 ==
    RequestWithContext =>
        /\ ProgressInOrder
        /\ FailedInside \/ FailedAtGuard =>
            /\ Len(ProgressValues) <= 1
            /\ ErrorCalls = 1

\* C30 (amended): progress is reported in order; a request whose text validate_sql_query
\* rejected, or whose execution failed, reports no progress of 0.9 or more and calls
\* ctx.error exactly once; a request with a blank text is rejected before the try
\* block and notifies the client of nothing.
Thm_C30 ==
    RequestWithContext =>
        /\ ProgressInOrder
        /\ FailedInside =>
            /\ Len(ProgressValues) <= 1
            /\ validated = "rejected" => ProgressValues = <<>>
            /\ ErrorCalls = 1
        /\ FailedAtGuard =>
            /\ clientEvents = <<>>
            /\ ErrorCalls = 0
            /\ exc = Raise("ValidationError", <<MsgEmpty>>)

\* the execution failed after progress 0.3 was reported, and the one error
\* notification was delivered
Wit_C30 ==
    /\ RequestWithContext
    /\ FailedInside
    /\ ExecutionFailed
    /\ ProgressValues = <<3>>
    /\ clientEvents[Len(clientEvents)].kind = "error"
    /\ exc.type = "DatabaseError"

============================================================================
